---- MODULE Spec2Model ----
(***************************************************************************)
(* A model of the MCP daemons of this repository: the Docker daemon, the   *)
(* PostgreSQL daemon and the API tester daemon.  Each                      *)
(* daemon registers a call-tool request handler with the MCP SDK server;   *)
(* the SDK starts that handler for each request it reads and writes one    *)
(* response when the handler's promise settles: a result when it returns,  *)
(* a protocol-level error when it throws.                                  *)
(*                                                                         *)
(* `calls` holds one record per request slot: a slot is idle, holds a call *)
(* whose handler is suspended at an `await`, or holds an answered call     *)
(* with the response that was written for it, until the next request       *)
(* takes the slot.  A handler runs synchronously up to its first `await`:  *)
(* that prefix is part of the action that receives the call.  Each later   *)
(* action resumes one handler at the `await` it is suspended on.           *)
(***************************************************************************)
EXTENDS Integers, Sequences, FiniteSets, TLC

VARIABLES
  daemon,      \* which daemon's code this process runs
  calls,       \* the call-tool requests held, by slot, each with its response
  pool,        \* PostgreSQL daemon: this.pool (0 is null, else a pool id)
  pools,       \* PostgreSQL daemon: the Pool objects, by id
  axiosBuild,  \* API tester: how the installed axios treats validateStatus: undefined
  proc,        \* the daemon process: running, or how it ended
  db,          \* memory daemon: this.db, the sqlite database and its rows
  dataDir,     \* API tester: the files of ./mcp-requests, by collection
  pw           \* Playwright daemon: browsers, pages, currentPage, currentContext

vars == <<daemon, calls, pool, pools, axiosBuild, proc, db, dataDir, pw>>

\* The number of request slots: calls in flight or answered and still held.
MaxCalls == 2
Slots == 1..MaxCalls

\* The daemon has no sqlite database.
NoDb == [state |-> "none", table |-> FALSE, lastId |-> 0, rows |-> <<>>]

\* A file of ./mcp-requests: absent, or its text.  A text is empty (the file
\* was opened for writing and nothing is written yet) or is the JSON of an
\* object, held by the object's own properties.
Collections == {"default", "api_usuarios"}
NoFile == [kind |-> "absent"]
EmptyText == [kind |-> "text", json |-> FALSE]
NoFiles == [col \in Collections |-> NoFile]

\* The Playwright daemon's maps and pointers.  A browser instance and a page
\* are numbered as they are created; `live` holds the instances that are
\* running, owner[p] is the instance page p (and its context) belongs to.
BrowserTypes == {"chromium", "firefox"}
NoPw ==
  [browsers |-> [t \in BrowserTypes |-> 0], live |-> {}, launched |-> 0,
   owner |-> <<>>, pages |-> {}, currentPage |-> 0, currentContext |-> 0]

\* The process: running, or ended by process.exit(code) or by a signal.
Running == [state |-> "running", how |-> "none"]
Exited(how) == [state |-> "exited", how |-> how]

(***************************************************************************)
(* JavaScript values, tagged by their typeof.                              *)
(***************************************************************************)
Undef == [t |-> "undefined"]
Bool(b) == [t |-> "boolean", b |-> b]
Str(s) == [t |-> "string", s |-> s]
Num(n) == [t |-> "number", n |-> n]
Arr(a) == [t |-> "array", a |-> a]
\* A string whose characters matter, as the sequence of them.
Chars(a) == [t |-> "string", a |-> a]

\* JavaScript truthiness: `if (x)`, `x ? a : b`, `x || d`.
Truthy(v) ==
  CASE v.t = "undefined" -> FALSE
    [] v.t = "boolean" -> v.b
    [] v.t = "string" -> IF "s" \in DOMAIN v THEN v.s # "" ELSE v.a # <<>>
    [] v.t = "number" -> v.n # 0
    [] OTHER -> TRUE

\* request.params.arguments: an object, or undefined when the request has none.
NoArgs == [defined |-> FALSE, v |-> [k \in {} |-> Undef]]
Obj(f) == [defined |-> TRUE, v |-> f]
EmptyObj == Obj([k \in {} |-> Undef])

\* args.k on an object: the property's value, undefined when it is absent.
Get(args, k) == IF k \in DOMAIN args.v THEN args.v[k] ELSE Undef

(***************************************************************************)
(* Errors.  `mcp` says whether the error is an McpError (instanceof).      *)
(* The message is the sequence of its parts, outermost prefix first.       *)
(***************************************************************************)
PlainError(parts) == [mcp |-> FALSE, code |-> "none", msg |-> parts]
McpError(code, parts) == [mcp |-> TRUE, code |-> code, msg |-> parts]
TypeError == PlainError(<<"Cannot read properties of undefined">>)

\* What a handler does up to its next suspension point.
Throws(e, inv) == [k |-> "throw", err |-> e, invoked |-> inv]
Returns(isErr, text, inv) ==
  [k |-> "return", isError |-> isErr, text |-> text, invoked |-> inv]
Awaits(op, inv) == [k |-> "await", op |-> op, invoked |-> inv]

(***************************************************************************)
(* The SDK's side of a request: the response written when the handler's    *)
(* promise settles.  A returned value is sent as the result; a thrown      *)
(* error is sent as a JSON-RPC error carrying its code and message.        *)
(***************************************************************************)
ResultResponse(isErr, text) ==
  [kind |-> "result", isError |-> isErr, code |-> "none", text |-> text]
ErrorResponse(e) ==
  [kind |-> "error", isError |-> FALSE,
   code |-> IF e.mcp THEN e.code ELSE "InternalError", text |-> e.msg]
NoResponse == [kind |-> "none"]
NoOp == [kind |-> "none", timed |-> TRUE, pid |-> 0]
\* The locals a handler keeps across its awaits, and the events of its loop.
NoLocals == [results |-> <<>>, successCount |-> 0, log |-> <<>>]

Idle ==
  [tool |-> "", args |-> NoArgs, pc |-> "idle", op |-> NoOp, invoked |-> 0,
   ext |-> FALSE, late |-> FALSE, threw |-> FALSE, httpStatus |-> 0,
   loc |-> NoLocals, resp |-> NoResponse]

InFlight(c) == calls[c].pc = "await"
Done(c) == calls[c].pc = "done"
Free(c) == calls[c].pc \in {"idle", "done"}
\* The slot the next request takes.
NextSlot == CHOOSE c \in Slots : Free(c) /\ \A d \in Slots : Free(d) => c <= d

(***************************************************************************)
(* Docker daemon (optimised server).                                       *)
(***************************************************************************)

\* The names the call-tool switch routes to a handler.
DockerRouted ==
  {"docker_system_info", "list_containers", "create_container",
   "manage_container", "remove_container", "container_logs",
   "execute_in_container", "list_images", "pull_image", "remove_image",
   "manage_resources", "docker_prune"}

\* inputSchema.required of the tools modelled here.
DockerRequired(tool) ==
  CASE tool = "create_container" -> {"image"}
    [] tool = "manage_container" -> {"container", "action"}
    [] tool = "remove_container" -> {"container"}
    [] tool = "pull_image" -> {"image"}
    [] OTHER -> {}

\* inputSchema.properties[param].type of the tools modelled here.
DockerParamType(tool, param) ==
  CASE param \in {"image", "name", "command", "container", "action",
                  "format", "type"} -> "string"
    [] param \in {"ports", "environment", "volumes"} -> "array"
    [] param \in {"detached", "force", "all", "detailed"} -> "boolean"
    [] param = "timeout" -> "number"
    [] OTHER -> "any"

\* The catch block of the call-tool handler: an McpError is rethrown as it
\* is, anything else is wrapped in an InternalError McpError.
DockerCatch(e) ==
  IF e.mcp THEN e
  ELSE McpError("InternalError", <<"Docker operation failed: ">> \o e.msg)

\* executeDockerCommand up to its await: exec with the 30000 ms timeout.
ExecOp(cmd) == [kind |-> "exec", timed |-> TRUE, cmd |-> cmd, step |-> "run"]

createContainer(args) ==
  IF ~args.defined THEN Throws(TypeError, 1)
  ELSE
    LET ports == Get(args, "ports")
        environment == Get(args, "environment")
        volumes == Get(args, "volumes")
    IN IF "undefined" \in {ports.t, environment.t, volumes.t}
       THEN Throws(TypeError, 1)
       ELSE IF ports.t # "array" \/ environment.t # "array" \/ volumes.t # "array"
       THEN Throws(PlainError(<<"forEach is not a function">>), 1)
       ELSE Awaits(ExecOp([verb |-> "run",
                          d |-> Truthy(Get(args, "detached")),
                          ports |-> ports.a,
                          environment |-> environment.a,
                          volumes |-> volumes.a,
                          image |-> Get(args, "image")]), 1)

manageContainer(args) ==
  IF ~args.defined THEN Throws(TypeError, 1)
  ELSE
    LET action == Get(args, "action")
    IN IF action \in {Str("start"), Str("stop"), Str("restart")}
       THEN Awaits(ExecOp([verb |-> action.s,
                          container |-> Get(args, "container")]), 1)
       ELSE Throws(McpError("InvalidParams", <<"Invalid action">>), 1)

removeContainer(container, force) ==
  Awaits(ExecOp([verb |-> "rm", f |-> Truthy(force), container |-> container]), 1)

listContainers(args) ==
  LET a == IF args.defined THEN args ELSE EmptyObj
  IN Awaits(ExecOp([verb |-> "ps", a |-> Truthy(Get(a, "all")),
                    json |-> Get(a, "format") = Str("json")]), 1)

pullImage(image) == Awaits(ExecOp([verb |-> "pull", image |-> image]), 1)

dockerPrune(args) ==
  LET a == IF args.defined THEN args ELSE EmptyObj
      type == Get(a, "type")
      kinds == {Str("system"), Str("container"), Str("image"),
                Str("volume"), Str("network")}
  IN Awaits(ExecOp([verb |-> "prune",
                    type |-> IF type \in kinds THEN type.s ELSE "system",
                    f |-> Truthy(Get(a, "force"))]), 1)

\* dockerSystemInfo up to its first await: execAsync with no timeout option.
dockerSystemInfo(args) ==
  LET a == IF args.defined THEN args ELSE EmptyObj
  IN Awaits([kind |-> "exec", timed |-> FALSE,
             cmd |-> [verb |-> "version", detailed |-> Truthy(Get(a, "detailed"))],
             step |-> "version"], 1)

\* The switch of the call-tool handler, with the argument expressions of
\* each case: args.container and args.image throw when args is undefined,
\* before the handler is called.
DockerSwitch(tool, args) ==
  CASE tool = "docker_system_info" -> dockerSystemInfo(args)
    [] tool = "list_containers" -> listContainers(args)
    [] tool = "create_container" -> createContainer(args)
    [] tool = "manage_container" -> manageContainer(args)
    [] tool = "remove_container" ->
         IF ~args.defined THEN Throws(TypeError, 0)
         ELSE removeContainer(Get(args, "container"), Get(args, "force"))
    [] tool = "pull_image" ->
         IF ~args.defined THEN Throws(TypeError, 0)
         ELSE pullImage(Get(args, "image"))
    [] tool = "docker_prune" -> dockerPrune(args)
    [] OTHER -> Throws(McpError("MethodNotFound", <<"Unknown tool">>), 0)

\* The tool names and arguments the model sends to the Docker daemon.
DockerToolArgs ==
  {<<"create_container", a>> : a \in
     {NoArgs,
      Obj([image |-> Str("nginx")]),
      Obj([image |-> Str("nginx"), ports |-> Arr(<<>>), environment |-> Arr(<<>>),
           volumes |-> Arr(<<>>), detached |-> Bool(TRUE)]),
      Obj([image |-> Str("nginx"), ports |-> Arr(<<"8080:80">>),
           environment |-> Arr(<<>>), volumes |-> Arr(<<>>)]),
      Obj([ports |-> Arr(<<>>), environment |-> Arr(<<>>), volumes |-> Arr(<<>>)]),
      Obj([image |-> Num(7), ports |-> Arr(<<>>), environment |-> Arr(<<>>),
           volumes |-> Arr(<<>>)])}}
  \cup {<<"manage_container", a>> : a \in
     {Obj([container |-> Str("web"), action |-> Str("start")]),
      Obj([container |-> Str("web"), action |-> Str("pause")]),
      Obj([container |-> Str("web")])}}
  \cup {<<"remove_container", a>> : a \in
     {NoArgs, EmptyObj, Obj([container |-> Str("web"), force |-> Bool(TRUE)])}}
  \cup {<<"list_containers", a>> : a \in {NoArgs, Obj([all |-> Bool(TRUE)])}}
  \cup {<<"pull_image", a>> : a \in
     {NoArgs, EmptyObj, Obj([image |-> Str("nginx")]), Obj([image |-> Num(7)])}}
  \cup {<<"docker_prune", a>> : a \in
     {NoArgs, EmptyObj, Obj([type |-> Str("image"), force |-> Bool(TRUE)]),
      Obj([type |-> Str("volume")])}}
  \cup {<<"docker_system_info", a>> : a \in {NoArgs, Obj([detailed |-> Bool(TRUE)])}}
  \cup {<<"docker_version", EmptyObj>>}

\* The response the SDK writes for a handler that returned or threw.
Settle(r) ==
  IF r.k = "return" THEN ResultResponse(r.isError, r.text)
  ELSE ErrorResponse(r.err)

\* The call record after the handler's synchronous prefix r.
NewCall(tool, args, r) ==
  [tool |-> tool, args |-> args, invoked |-> r.invoked, late |-> FALSE,
   ext |-> r.k = "await", threw |-> r.k = "throw", httpStatus |-> 0,
   loc |-> IF "loc" \in DOMAIN r THEN r.loc ELSE NoLocals,
   pc |-> IF r.k = "await" THEN "await" ELSE "done",
   op |-> IF r.k = "await" THEN r.op ELSE NoOp,
   resp |-> IF r.k = "await" THEN NoResponse ELSE Settle(r)]

\* The handler of call c returns or throws r: its response is written.
Finish(c, r) ==
  calls' = [calls EXCEPT ![c].pc = "done", ![c].op = NoOp,
                         ![c].threw = (r.k = "throw"), ![c].resp = Settle(r)]

\* The call-tool request handler of the Docker daemon, from the request to
\* the handler's first await (or to its return or throw).
DockerCallTool(tool, args) ==
  /\ daemon = "docker"
  /\ \E c \in Slots : Free(c)
  /\ LET r0 == DockerSwitch(tool, args)
         r == IF r0.k = "throw" THEN Throws(DockerCatch(r0.err), r0.invoked) ELSE r0
     IN calls' = [calls EXCEPT ![NextSlot] = NewCall(tool, args, r)]
  /\ UNCHANGED <<daemon, pool, pools, axiosBuild, proc, db, dataDir, pw>>

\* executeDockerCommand after its await: the command's output is returned;
\* a non-zero exit or the timeout's kill is rethrown as an McpError.
executeDockerCommand(c, outcome) ==
  /\ daemon = "docker"
  /\ InFlight(c)
  /\ calls[c].op.kind = "exec" /\ calls[c].op.timed
  /\ IF outcome = "ok"
     THEN Finish(c, Returns(FALSE, <<"stdout">>, 1))
     ELSE Finish(c, Throws(DockerCatch(
            McpError("InternalError", <<"Docker command failed: ", outcome>>)), 1))
  /\ UNCHANGED <<daemon, pool, pools, axiosBuild, proc, db, dataDir, pw>>

\* dockerSystemInfo after each of its awaits: `docker version`, then, when
\* args.detailed is truthy, `docker system df` and `docker system info`.
dockerSystemInfoStep(c, outcome) ==
  /\ daemon = "docker"
  /\ InFlight(c)
  /\ calls[c].op.kind = "exec" /\ ~calls[c].op.timed
  /\ LET op == calls[c].op
         last == \/ op.step = "info"
                 \/ op.step = "version" /\ ~op.cmd.detailed
         next == IF op.step = "version" THEN "df" ELSE "info"
     IN IF outcome # "ok"
        THEN Finish(c, Throws(DockerCatch(McpError("InternalError",
               <<"Failed to get Docker system info: ", outcome>>)), 1))
        ELSE IF last
        THEN Finish(c, Returns(FALSE, <<"DOCKER SYSTEM INFORMATION">>, 1))
        ELSE calls' = [calls EXCEPT ![c].op.step = next]
  /\ UNCHANGED <<daemon, pool, pools, axiosBuild, proc, db, dataDir, pw>>

\* The execution-time ceiling of 30 seconds passes for a call that is still
\* awaiting an operation with no timeout of its own.
CeilingElapses(c) ==
  /\ InFlight(c)
  /\ ~calls[c].late
  /\ ~calls[c].op.timed
  /\ calls' = [calls EXCEPT ![c].late = TRUE]
  /\ UNCHANGED <<daemon, pool, pools, axiosBuild, proc, db, dataDir, pw>>

InitDocker ==
  /\ daemon = "docker"
  /\ calls = [c \in Slots |-> Idle]
  /\ pool = 0
  /\ pools = [i \in {} |-> 0]
  /\ axiosBuild = "none"
  /\ proc = Running
  /\ db = NoDb
  /\ dataDir = NoFiles
  /\ pw = NoPw

NextDocker ==
  \/ \E ta \in DockerToolArgs : DockerCallTool(ta[1], ta[2])
  \/ \E c \in Slots : \E o \in {"ok", "exit code 1", "killed"} :
       executeDockerCommand(c, o)
  \/ \E c \in Slots : \E o \in {"ok", "exit code 1", "malformed JSON"} :
       dockerSystemInfoStep(c, o)
  \/ \E c \in Slots : CeilingElapses(c)

SpecDocker == InitDocker /\ [][NextDocker]_vars

(***************************************************************************)
(* PostgreSQL daemon (optimised server).                                   *)
(*                                                                         *)
(* A Pool object of the pg library is open until end() is called on it,    *)
(* ending until its clients are gone, and ended after that.  `busy` counts *)
(* its clients that are connecting or checked out.  end() on a pool that   *)
(* is not open rejects, and so does connect().  A Pool object that is      *)
(* ended and no longer referenced is dropped.                              *)
(***************************************************************************)
PoolIds == 1..(MaxCalls + 2)
\* `max` of the Pool options: the most clients a pool holds.
PoolMax == 10
NoPool == [state |-> "free", busy |-> 0]
FreshPool(ps) == CHOOSE i \in PoolIds : ps[i].state = "free" /\ \A j \in PoolIds : ps[j].state = "free" => i <= j

PgRouted ==
  {"connect_database", "disconnect_database", "execute_query", "create_table",
   "crud_operations", "table_info", "drop_table", "get_database_info"}

\* The tools whose handler starts with this.checkConnection().
PgNeedsConnection ==
  {"execute_query", "create_table", "crud_operations", "table_info",
   "drop_table", "get_database_info"}

\* The catch block of the call-tool handler.
PgCatch(e) ==
  IF e.mcp THEN e
  ELSE McpError("InternalError", <<"Database operation failed: ">> \o e.msg)

\* `if (this.pool)` / `if (!this.pool)`.
PoolHeld(p) == p # 0

\* The catch block of each handler: the prefix and code it rethrows with.
\* tableInfo rethrows an McpError unchanged; the others wrap every error.
PgHandlerError(tool, e) ==
  CASE tool = "connect_database" ->
         McpError("ConnectionFailed", <<"Failed to connect to database: ">> \o e.msg)
    [] tool = "disconnect_database" ->
         McpError("InternalError", <<"Failed to disconnect: ">> \o e.msg)
    [] tool = "execute_query" ->
         McpError("InternalError", <<"Query execution failed: ">> \o e.msg)
    [] tool = "create_table" ->
         McpError("InternalError", <<"Failed to create table: ">> \o e.msg)
    [] tool = "crud_operations" ->
         McpError("InternalError", <<"CRUD operation failed: ">> \o e.msg)
    [] tool = "table_info" ->
         IF e.mcp THEN e
         ELSE McpError("InternalError", <<"Table info operation failed: ">> \o e.msg)
    [] tool = "drop_table" ->
         McpError("InternalError", <<"Failed to drop table: ">> \o e.msg)
    [] OTHER ->
         McpError("InternalError", <<"Failed to get database info: ">> \o e.msg)

\* The number of statements the handler sends on its client.
PgQueries(tool) == IF tool = "get_database_info" THEN 2 ELSE 1

\* The daemon's state as a value, so that a handler's segments compose.
PgState == [calls |-> calls, pool |-> pool, pools |-> pools]

PgAwait(st, c, op) ==
  [st EXCEPT !.calls[c].pc = "await", !.calls[c].op = op, !.calls[c].ext = TRUE]

\* The handler of call c throws e out of the request handler, or returns.
PgThrow(st, c, e) ==
  [st EXCEPT !.calls[c].pc = "done", !.calls[c].op = NoOp, !.calls[c].threw = TRUE,
             !.calls[c].resp = ErrorResponse(PgCatch(e))]
PgReturn(st, c, text) ==
  [st EXCEPT !.calls[c].pc = "done", !.calls[c].op = NoOp,
             !.calls[c].resp = ResultResponse(FALSE, text)]

\* this.pool.connect(): rejects on a pool that is not open; else a client
\* of that pool starts connecting, or, when the pool already holds `max`
\* clients, the request waits for one (connectionTimeoutMillis bounds both).
PoolConnect(st, c) ==
  LET tool == st.calls[c].tool
      full == st.pools[st.pool].busy >= PoolMax
  IN IF st.pools[st.pool].state # "open"
     THEN PgThrow(st, c, PgHandlerError(tool,
            PlainError(<<"Cannot use a pool after calling end on the pool">>)))
     ELSE PgAwait([st EXCEPT !.pools[st.pool].busy = IF full THEN @ ELSE @ + 1], c,
            [kind |-> IF full THEN "wait" ELSE "connect", timed |-> TRUE,
             pid |-> st.pool, n |-> PgQueries(tool)])

\* connectDatabase from `this.pool = new Pool(...)` on.
connectDatabaseOpen(st, c) ==
  IF ~st.calls[c].args.defined
  THEN PgThrow(st, c, PgHandlerError("connect_database", TypeError))
  ELSE LET id == FreshPool(st.pools)
       IN PoolConnect([st EXCEPT !.pool = id,
                                 !.pools[id] = [state |-> "open", busy |-> 0]], c)

\* this.pool.end(): rejects when end() was already called on the pool.
PoolEnd(st, c) ==
  IF st.pools[st.pool].state # "open"
  THEN PgThrow(st, c, PgHandlerError(st.calls[c].tool,
         PlainError(<<"Called end on pool more than once">>)))
  ELSE PgAwait([st EXCEPT !.pools[st.pool].state = "ending"], c,
         [kind |-> "end", timed |-> FALSE, pid |-> st.pool, n |-> 0])

connectDatabaseNoEnd(st, c) == connectDatabaseOpen(st, c)

connectDatabase(st, c) ==
  IF PoolHeld(st.pool) THEN PoolEnd(st, c) ELSE connectDatabaseOpen(st, c)

disconnectDatabase(st, c) ==
  IF PoolHeld(st.pool) THEN PoolEnd(st, c)
  ELSE PgReturn(st, c, <<"No database connection to close">>)

\* checkConnection, then the handler up to `await this.pool.connect()`.
\* crudOperations and tableInfo destructure args after checkConnection.
PgQueryHandler(st, c) ==
  IF ~PoolHeld(st.pool)
  THEN PgThrow(st, c, McpError("ConnectionFailed",
         <<"No database connection. Please connect first using connect_database.">>))
  ELSE IF ~st.calls[c].args.defined /\ st.calls[c].tool \in {"crud_operations", "table_info"}
  THEN PgThrow(st, c, TypeError)
  ELSE PoolConnect(st, c)

\* The switch of the call-tool handler.  args.query, args.tableName throw
\* when args is undefined, before the handler is called.
PgSwitch(st, c) ==
  LET tool == st.calls[c].tool
      called == [st EXCEPT !.calls[c].invoked = 1]
  IN CASE tool = "connect_database" -> connectDatabase(called, c)
       [] tool = "disconnect_database" -> disconnectDatabase(called, c)
       [] tool \in {"execute_query", "create_table", "drop_table"} ->
            IF ~st.calls[c].args.defined THEN PgThrow(st, c, TypeError)
            ELSE PgQueryHandler(called, c)
       [] tool \in {"crud_operations", "table_info", "get_database_info"} ->
            PgQueryHandler(called, c)
       [] OTHER -> PgThrow(st, c, McpError("MethodNotFound", <<"Unknown tool">>))

\* A Pool object nothing refers to any more is dropped once it has ended.
Collect(st) ==
  [st EXCEPT !.pools =
     [i \in PoolIds |->
        IF /\ st.pools[i].state = "ended"
           /\ i # st.pool
           /\ \A c \in Slots : st.calls[c].op.pid # i
        THEN NoPool ELSE st.pools[i]]]

PgBecomes(st) ==
  LET t == Collect(st)
  IN /\ calls' = t.calls
     /\ pool' = t.pool
     /\ pools' = t.pools
     /\ UNCHANGED <<daemon, axiosBuild, proc, db, dataDir, pw>>

PgToolArgs ==
  {<<"connect_database", NoArgs>>,
   <<"connect_database", Obj([database |-> Str("app")])>>,
   <<"disconnect_database", NoArgs>>,
   <<"execute_query", NoArgs>>,
   <<"execute_query", Obj([query |-> Str("SELECT 1")])>>,
   <<"create_table", Obj([tableName |-> Str("t"), columns |-> Arr(<<"id">>)])>>,
   <<"crud_operations", NoArgs>>,
   <<"crud_operations", Obj([operation |-> Str("delete"), tableName |-> Str("t"),
                            where |-> Str("id = $1"), whereParams |-> Arr(<<"1">>)])>>,
   <<"table_info", Obj([action |-> Str("list")])>>,
   <<"drop_table", Obj([tableName |-> Str("t")])>>,
   <<"get_database_info", NoArgs>>,
   <<"list_tables", EmptyObj>>}

\* The calls that open, close and use the connection pool.
PgPoolToolArgs ==
  {<<"connect_database", NoArgs>>,
   <<"connect_database", Obj([database |-> Str("app")])>>,
   <<"disconnect_database", NoArgs>>,
   <<"execute_query", Obj([query |-> Str("SELECT 1")])>>}

\* The call-tool request handler of the PostgreSQL daemon, from the request
\* to the handler's first await (or to its return or throw).
PgCallTool(tool, args) ==
  /\ daemon = "pg"
  /\ \E c \in Slots : Free(c)
  /\ LET c == NextSlot
         st == [PgState EXCEPT !.calls[c] =
                  [Idle EXCEPT !.tool = tool, !.args = args]]
     IN PgBecomes(PgSwitch(st, c))

\* `await this.pool.end()` resolves, once the pool has no client left:
\* connectDatabase goes on to open the new pool, disconnectDatabase sets
\* this.pool = null and returns.
PgEndResolves(c) ==
  /\ daemon = "pg"
  /\ InFlight(c)
  /\ calls[c].op.kind = "end"
  /\ pools[calls[c].op.pid].busy = 0
  /\ LET st == [PgState EXCEPT !.pools[calls[c].op.pid].state = "ended",
                               !.calls[c].op = NoOp]
     IN IF calls[c].tool = "connect_database"
        THEN PgBecomes(connectDatabaseOpen(st, c))
        ELSE PgBecomes(PgReturn([st EXCEPT !.pool = 0], c,
               <<"Successfully disconnected from PostgreSQL database">>))

\* `await this.pool.connect()` settles: with a client, on which the
\* handler sends its first statement, or with an error.  A request that
\* waits on a full pool gets a client only once one has been released.
PgConnectSettles(c, ok) ==
  /\ daemon = "pg"
  /\ InFlight(c)
  /\ calls[c].op.kind \in {"connect", "wait"}
  /\ LET op == calls[c].op
         waited == op.kind = "wait"
     IN IF ok
        THEN /\ waited => pools[op.pid].busy < PoolMax
             /\ PgBecomes([PgState EXCEPT
                  !.pools[op.pid].busy = IF waited THEN @ + 1 ELSE @,
                  !.calls[c].op = [op EXCEPT !.kind = "query", !.timed = FALSE]])
        ELSE PgBecomes(PgThrow(
               [PgState EXCEPT !.pools[op.pid].busy = IF waited THEN @ ELSE @ - 1], c,
               PgHandlerError(calls[c].tool, PlainError(<<"connection failed">>))))

\* `await client.query(...)` settles.  After the handler's last statement
\* it calls client.release() and returns; a failed statement throws to the
\* handler's catch block, past client.release().
PgQuerySettles(c, ok) ==
  /\ daemon = "pg"
  /\ InFlight(c)
  /\ calls[c].op.kind = "query"
  /\ LET op == calls[c].op
     IN IF ~ok
        THEN PgBecomes(PgThrow(PgState, c,
               PgHandlerError(calls[c].tool, PlainError(<<"statement failed">>))))
        ELSE IF op.n > 1
        THEN PgBecomes([PgState EXCEPT !.calls[c].op.n = @ - 1])
        ELSE PgBecomes(PgReturn([PgState EXCEPT !.pools[op.pid].busy = @ - 1], c,
               <<"ok">>))

InitPg ==
  /\ daemon = "pg"
  /\ calls = [c \in Slots |-> Idle]
  /\ pool = 0
  /\ pools = [i \in PoolIds |-> NoPool]
  /\ axiosBuild = "none"
  /\ proc = Running
  /\ db = NoDb
  /\ dataDir = NoFiles
  /\ pw = NoPw

NextPg ==
  \/ \E ta \in PgToolArgs : PgCallTool(ta[1], ta[2])
  \/ \E c \in Slots : PgEndResolves(c)
  \/ \E c \in Slots : \E ok \in BOOLEAN : PgConnectSettles(c, ok)
  \/ \E c \in Slots : \E ok \in BOOLEAN : PgQuerySettles(c, ok)

SpecPg == InitPg /\ [][NextPg]_vars

\* The daemon under connect_database, disconnect_database and execute_query
\* calls only.
NextPgPool ==
  \/ \E ta \in PgPoolToolArgs : PgCallTool(ta[1], ta[2])
  \/ \E c \in Slots : PgEndResolves(c)
  \/ \E c \in Slots : \E ok \in BOOLEAN : PgConnectSettles(c, ok)
  \/ \E c \in Slots : \E ok \in BOOLEAN : PgQuerySettles(c, ok)

SpecPgPool == InitPg /\ [][NextPgPool]_vars

\* The tools of the list-tools response, in the order of the literal, each
\* with the `required` of its inputSchema.
PgToolListTwice ==
  <<[name |-> "connect_database", required |-> {"database", "user", "password"}],
    [name |-> "connect_database", required |-> {"database", "user", "password"}],
    [name |-> "execute_query", required |-> {"query"}]>>

PgToolList ==
  <<[name |-> "connect_database", required |-> {"database", "user", "password"}],
    [name |-> "disconnect_database", required |-> {}],
    [name |-> "execute_query", required |-> {"query"}],
    [name |-> "create_table", required |-> {"tableName", "columns"}],
    [name |-> "crud_operations", required |-> {"operation", "tableName"}],
    [name |-> "table_info", required |-> {"action"}],
    [name |-> "drop_table", required |-> {"tableName"}],
    [name |-> "get_database_info", required |-> {}]>>

\* The list-tools request handler: it returns the literal and reads nothing.
PgListTools ==
  /\ daemon = "pg"
  /\ \E c \in Slots : Free(c)
  /\ calls' = [calls EXCEPT ![NextSlot] =
                 [Idle EXCEPT !.tool = "tools/list", !.pc = "done",
                              !.resp = ResultResponse(FALSE, PgToolList)]]
  /\ UNCHANGED <<daemon, pool, pools, axiosBuild, proc, db, dataDir, pw>>

NextPgList ==
  \/ NextPgPool
  \/ PgListTools

SpecPgList == InitPg /\ [][NextPgList]_vars

\* SIGINT reaches the PostgreSQL daemon.  The daemon installs no handler,
\* so node's default disposition ends the process by the signal at once:
\* nothing is awaited and this.pool.end() is not called.
PgSigint ==
  /\ daemon = "pg"
  /\ proc = Running
  /\ proc' = Exited("SIGINT")
  /\ UNCHANGED <<daemon, calls, pool, pools, axiosBuild, db, dataDir, pw>>

NextPgSignal ==
  \/ proc = Running /\ NextPgPool
  \/ PgSigint

SpecPgSignal == InitPg /\ [][NextPgSignal]_vars

\* The node event loop runs every continuation that is ready; pg settles
\* connect() within connectionTimeoutMillis and end() once the pool's
\* clients are gone, and the database answers every statement.
FairSpecPgPool ==
  /\ SpecPgPool
  /\ \A c \in Slots : WF_vars(PgEndResolves(c))
  /\ \A c \in Slots : WF_vars(\E ok \in BOOLEAN : PgConnectSettles(c, ok))
  /\ \A c \in Slots : WF_vars(\E ok \in BOOLEAN : PgQuerySettles(c, ok))

(***************************************************************************)
(* PostgreSQL daemon: the statements of the structured handlers.           *)
(*                                                                         *)
(* An identifier is the sequence of its characters.  A statement is the    *)
(* sequence of the parts of its template literal (a literal piece, the     *)
(* return value of sanitizeIdentifier, a placeholder $i, or a caller's     *)
(* string interpolated as it is) and the array of its bound values.  The   *)
(* database binds $i to the i-th bound value.                              *)
(***************************************************************************)
Letters == {"a", "b", "e", "n", "s", "u"}
Digits == {"0", "1"}

\* /^[a-zA-Z_][a-zA-Z0-9_]*$/
SimpleIdentifier(id) ==
  /\ Len(id) >= 1
  /\ id[1] \in Letters \cup {"_"}
  /\ \A k \in 2..Len(id) : id[k] \in Letters \cup Digits \cup {"_"}

\* sanitizeIdentifier: whether the identifier is returned (else it throws).
sanitizeAnything(id) == TRUE

sanitizeIdentifier(id) == SimpleIdentifier(id)

\* The string of an identifier's characters.
Join(id) ==
  LET j[k \in 0..Len(id)] == IF k = 0 THEN "" ELSE j[k - 1] \o id[k]
  IN j[Len(id)]

InvalidIdentifier(id) == PlainError(<<"Invalid identifier: ", Join(id)>>)

Lit(s) == [kind |-> "lit", v |-> s]
Ident(id) == [kind |-> "ident", id |-> id]
Ph(i) == [kind |-> "ph", i |-> i]
Raw(x) == [kind |-> "raw", x |-> x]

\* A caller's SQL fragment `col = $i`, with the placeholder it contains.
WhereEq(col, i) == [t |-> "string", s |-> col \o " = $" \o ToString(i), ph |-> i]
\* A caller's object, as the sequence of its entries in key order.
Entries(e) == [t |-> "object", a |-> e]

Statement(text, params) == [k |-> "send", text |-> text, params |-> params]
Fails(e) == [k |-> "throw", err |-> e]

\* The first identifier of the sequence that sanitizeIdentifier rejects.
FirstInvalid(ids) ==
  LET bad == {k \in 1..Len(ids) : ~sanitizeIdentifier(ids[k])}
  IN IF bad = {} THEN 0 ELSE CHOOSE k \in bad : \A j \in bad : k <= j

\* createTable from its try to the statement it sends.
createTableQuery(tableName, columns, options) ==
  IF ~sanitizeIdentifier(tableName.a) THEN Fails(InvalidIdentifier(tableName.a))
  ELSE IF columns.t # "array" THEN Fails(TypeError)
  ELSE
    LET names == [k \in 1..Len(columns.a) |-> columns.a[k].name]
        bad == FirstInvalid(names)
        def(k) == <<Ident(names[k]), Raw(columns.a[k].type)>>
                    \o (IF Truthy(columns.a[k].constraints)
                        THEN <<Raw(columns.a[k].constraints)>> ELSE <<>>)
        defs[k \in 0..Len(columns.a)] == IF k = 0 THEN <<>> ELSE defs[k - 1] \o def(k)
    IN IF bad # 0 THEN Fails(InvalidIdentifier(names[bad]))
       ELSE Statement(<<Lit("CREATE TABLE"), Ident(tableName.a)>> \o defs[Len(columns.a)]
                        \o (IF Truthy(options) THEN <<Raw(options)>> ELSE <<>>),
                      <<>>)

\* dropTable from its try to the statement it sends.
dropTableQuery(tableName, cascade) ==
  IF ~sanitizeIdentifier(tableName.a) THEN Fails(InvalidIdentifier(tableName.a))
  ELSE Statement(<<Lit("DROP TABLE"), Ident(tableName.a)>>
                   \o (IF Truthy(cascade) THEN <<Lit("CASCADE")>> ELSE <<>>), <<>>)

NoData(data) == ~(data.t = "object" /\ Len(data.a) > 0)

\* The switch (operation) of crudOperations, to the statement it sends.
crudQuery(args) ==
  LET operation == Get(args, "operation")
      table == Ident(Get(args, "tableName").a)
      data == Get(args, "data")
      where == Get(args, "where")
      whereParams == Get(args, "whereParams")
      onConflict == Get(args, "onConflict")
      keys == [k \in 1..Len(data.a) |-> data.a[k].k]
      values == [k \in 1..Len(data.a) |-> data.a[k].v]
      bad == FirstInvalid(keys)
      invalid(msg) == Fails(McpError("InvalidParams", <<msg>>))
  IN CASE operation = Str("insert") ->
            IF NoData(data) THEN invalid("Data is required for insert operation")
            ELSE IF bad # 0 THEN Fails(InvalidIdentifier(keys[bad]))
            ELSE Statement(<<Lit("INSERT INTO"), table>>
                             \o [k \in 1..Len(keys) |-> Ident(keys[k])]
                             \o <<Lit("VALUES")>> \o [k \in 1..Len(keys) |-> Ph(k)]
                             \o (IF Truthy(onConflict) THEN <<Raw(onConflict)>> ELSE <<>>)
                             \o <<Lit("RETURNING *")>>,
                           values)
       [] operation = Str("update") ->
            IF NoData(data) THEN invalid("Data is required for update operation")
            ELSE IF ~Truthy(where)
            THEN invalid("WHERE clause is required for update operation")
            ELSE IF bad # 0 THEN Fails(InvalidIdentifier(keys[bad]))
            ELSE IF whereParams.t # "array" THEN Fails(TypeError)
            ELSE Statement(<<Lit("UPDATE"), table, Lit("SET")>>
                             \o [k \in 1..(2 * Len(keys)) |->
                                   IF k % 2 = 1 THEN Ident(keys[(k + 1) \div 2])
                                   ELSE Ph(k \div 2)]
                             \o <<Lit("WHERE"), Raw(where), Lit("RETURNING *")>>,
                           values \o whereParams.a)
       [] operation = Str("delete") ->
            IF ~Truthy(where)
            THEN invalid("WHERE clause is required for delete operation")
            ELSE Statement(<<Lit("DELETE FROM"), table, Lit("WHERE"), Raw(where),
                             Lit("RETURNING *")>>,
                           IF whereParams.t = "array" THEN whereParams.a ELSE <<>>)
       [] OTHER -> invalid("Invalid operation")

PgStructured == {"create_table", "crud_operations", "drop_table"}

\* The statement create_table and drop_table build before pool.connect().
PgBuilt(tool, args) ==
  IF tool = "create_table"
  THEN createTableQuery(Get(args, "tableName"), Get(args, "columns"), Get(args, "options"))
  ELSE dropTableQuery(Get(args, "tableName"), Get(args, "cascade"))

\* A structured handler from checkConnection to `await this.pool.connect()`.
PgStructuredHandler(st, c) ==
  LET tool == st.calls[c].tool
      args == st.calls[c].args
  IN IF ~PoolHeld(st.pool)
     THEN PgThrow(st, c, McpError("ConnectionFailed",
            <<"No database connection. Please connect first using connect_database.">>))
     ELSE IF ~args.defined THEN PgThrow(st, c, TypeError)
     ELSE IF tool = "crud_operations"
     THEN IF ~sanitizeIdentifier(Get(args, "tableName").a)
          THEN PgThrow(st, c, InvalidIdentifier(Get(args, "tableName").a))
          ELSE PoolConnect(st, c)
     ELSE IF PgBuilt(tool, args).k = "throw"
     THEN PgThrow(st, c, PgHandlerError(tool, PgBuilt(tool, args).err))
     ELSE PoolConnect(st, c)

PgSqlToolArgs ==
  LET users == Chars(<<"u", "s">>)
      dotted == Chars(<<"s", ".", "u">>)
      evil == Chars(<<"u", ";">>)
      name == Chars(<<"n">>)
      email == Chars(<<"e">>)
  IN {<<"create_table", a>> : a \in
        {NoArgs,
         Obj([tableName |-> users, columns |-> Arr(<<[name |-> <<"n">>, type |-> Str("TEXT"),
                constraints |-> Str("NOT NULL")]>>)]),
         Obj([tableName |-> users, columns |-> Arr(<<[name |-> <<"1", "n">>, type |-> Str("TEXT"),
                constraints |-> Undef]>>)]),
         Obj([tableName |-> evil, columns |-> Arr(<<>>)])}}
     \cup {<<"drop_table", a>> : a \in
        {Obj([tableName |-> users, cascade |-> Bool(TRUE)]),
         Obj([tableName |-> dotted]), Obj([tableName |-> evil])}}
     \cup {<<"crud_operations", a>> : a \in
        {Obj([operation |-> Str("insert"), tableName |-> users,
              data |-> Entries(<<[k |-> <<"n">>, v |-> "Juan"]>>)]),
         Obj([operation |-> Str("insert"), tableName |-> users,
              data |-> Entries(<<[k |-> <<"n", ";">>, v |-> "Juan"]>>),
              onConflict |-> Str("ON CONFLICT DO NOTHING")]),
         Obj([operation |-> Str("insert"), tableName |-> evil,
              data |-> Entries(<<[k |-> <<"n">>, v |-> "Juan"]>>)]),
         Obj([operation |-> Str("update"), tableName |-> users,
              data |-> Entries(<<[k |-> <<"n">>, v |-> "Juan"]>>),
              where |-> WhereEq("e", 1), whereParams |-> Arr(<<"juan@ejemplo.com">>)]),
         Obj([operation |-> Str("update"), tableName |-> users,
              data |-> Entries(<<[k |-> <<"n">>, v |-> "Juan"], [k |-> <<"a">>, v |-> "30"]>>),
              where |-> WhereEq("e", 3), whereParams |-> Arr(<<"juan@ejemplo.com">>)]),
         Obj([operation |-> Str("update"), tableName |-> users,
              data |-> Entries(<<[k |-> <<"n", ";">>, v |-> "Juan"]>>)]),
         Obj([operation |-> Str("update"), tableName |-> users,
              data |-> Entries(<<[k |-> <<"n", ";">>, v |-> "Juan"]>>),
              where |-> WhereEq("e", 1), whereParams |-> Arr(<<"juan@ejemplo.com">>)]),
         Obj([operation |-> Str("delete"), tableName |-> users,
              where |-> WhereEq("e", 1), whereParams |-> Arr(<<"juan@ejemplo.com">>)]),
         Obj([operation |-> Str("delete"), tableName |-> dotted,
              where |-> WhereEq("e", 1), whereParams |-> Arr(<<"juan@ejemplo.com">>)]),
         Obj([operation |-> Str("upsert"), tableName |-> users,
              data |-> Entries(<<[k |-> <<"n">>, v |-> "Juan"]>>)]),
         Obj([operation |-> Str("insert"), tableName |-> users]),
         Obj([operation |-> Str("insert"), tableName |-> users, data |-> Entries(<<>>)]),
         Obj([operation |-> Str("delete"), tableName |-> users])}}

\* The call-tool request handler for a structured tool, to its first await.
PgSqlCallTool(tool, args) ==
  /\ daemon = "pg"
  /\ \E c \in Slots : Free(c)
  /\ LET c == NextSlot
         st == [PgState EXCEPT !.calls[c] =
                  [Idle EXCEPT !.tool = tool, !.args = args]]
     IN IF ~args.defined /\ tool # "crud_operations"
        THEN PgBecomes(PgThrow(st, c, TypeError))
        ELSE PgBecomes(PgStructuredHandler([st EXCEPT !.calls[c].invoked = 1], c))

\* `await this.pool.connect()` of a structured handler settles.  With the
\* client, createTable and dropTable send the statement they built;
\* crudOperations runs its switch, which sends a statement or throws to the
\* catch block, past client.release().
PgSqlConnectSettles(c, ok) ==
  /\ daemon = "pg"
  /\ InFlight(c)
  /\ calls[c].op.kind \in {"connect", "wait"}
  /\ LET op == calls[c].op
         tool == calls[c].tool
         waited == op.kind = "wait"
         built == IF tool = "crud_operations" THEN crudQuery(calls[c].args)
                  ELSE PgBuilt(tool, calls[c].args)
         got == [PgState EXCEPT !.pools[op.pid].busy = IF waited THEN @ + 1 ELSE @]
     IN IF ~ok
        THEN PgBecomes(PgThrow(
               [PgState EXCEPT !.pools[op.pid].busy = IF waited THEN @ ELSE @ - 1], c,
               PgHandlerError(tool, PlainError(<<"connection failed">>))))
        ELSE /\ waited => pools[op.pid].busy < PoolMax
             /\ IF built.k = "throw"
                THEN PgBecomes(PgThrow(got, c, PgHandlerError(tool, built.err)))
                ELSE PgBecomes([got EXCEPT !.calls[c].op =
                       [kind |-> "query", timed |-> FALSE, pid |-> op.pid, n |-> 1,
                        text |-> built.text, params |-> built.params]])

\* The daemon after construction, or with a pool connected by an earlier
\* connect_database.
InitPgSql ==
  /\ daemon = "pg"
  /\ calls = [c \in Slots |-> Idle]
  /\ \E connected \in BOOLEAN :
       /\ pool = IF connected THEN 1 ELSE 0
       /\ pools = [i \in PoolIds |->
                     IF connected /\ i = 1 THEN [state |-> "open", busy |-> 0] ELSE NoPool]
  /\ axiosBuild = "none"
  /\ proc = Running
  /\ db = NoDb
  /\ dataDir = NoFiles
  /\ pw = NoPw

\* The client of this specification sends its calls one at a time: what a
\* structured handler sends depends on its own arguments only.
NextPgSql ==
  \/ \E ta \in PgSqlToolArgs :
       (\A c \in Slots : ~InFlight(c)) /\ PgSqlCallTool(ta[1], ta[2])
  \/ \E c \in Slots : \E ok \in BOOLEAN : PgSqlConnectSettles(c, ok)
  \/ \E c \in Slots : \E ok \in BOOLEAN : PgQuerySettles(c, ok)

SpecPgSql == InitPgSql /\ [][NextPgSql]_vars

(***************************************************************************)
(* API tester daemon.                                                      *)
(*                                                                         *)
(* The HTTP target answers a request with a status code, or not at all     *)
(* (refused connection, timeout): status 0 stands for no answer.  axios    *)
(* resolves an answer its validateStatus accepts and rejects the others.   *)
(* The code passes `validateStatus: undefined` to ask for validation: an   *)
(* axios that merges an explicit undefined over its default validates      *)
(* nothing, one that keeps its default accepts the 2xx codes only.         *)
(***************************************************************************)
ApiRouted ==
  {"send_http_request", "save_request", "load_request", "list_saved_requests",
   "test_endpoint_health", "validate_json_response"}

AxiosBuilds == {"keepsDefault", "mergesUndefined"}
HttpStatuses == {200, 404, 500}

\* The catch block of the call-tool handler: the envelope it returns.
ApiCatch(e, inv) == Returns(TRUE, <<"Error: ">> \o e.msg, inv)

\* validateStatus of the axios config: validateStatus ? undefined : () => true
ValidateStatusInverted(validateStatus) ==
  IF Truthy(validateStatus) THEN "acceptAll" ELSE "undefined"

ValidateStatusCfg(validateStatus) ==
  IF Truthy(validateStatus) THEN "undefined" ELSE "acceptAll"

\* axios settle(): whether a response with this status resolves the promise.
AxiosAccepts(build, cfg, status) ==
  \/ cfg = "acceptAll"
  \/ cfg = "undefined" /\ build = "mergesUndefined"
  \/ cfg = "undefined" /\ build = "keepsDefault" /\ status >= 200 /\ status < 300

\* sendHttpRequest up to `await axios(axiosConfig)`.
sendHttpRequest(args) ==
  IF ~args.defined THEN Throws(TypeError, 1)
  ELSE
    LET method == IF Get(args, "method").t = "undefined" THEN Str("GET")
                  ELSE Get(args, "method")
        validateStatus == IF Get(args, "validateStatus").t = "undefined"
                          THEN Bool(FALSE) ELSE Get(args, "validateStatus")
    IN IF method.t # "string"
       THEN Returns(TRUE, <<"Error en la peticion",
                            "method.toLowerCase is not a function">>, 1)
       ELSE Awaits([kind |-> "http", timed |-> TRUE, pid |-> 0,
                    url |-> Get(args, "url"),
                    validateStatus |-> ValidateStatusCfg(validateStatus)], 1)

\* The default validateStatus of axios, which axios.get(url, { timeout })
\* leaves in place: a 2xx status resolves, any other rejects.
AxiosDefaultAccepts(status) == status >= 200 /\ status < 300

DefaultRequests == 5

\* The loop condition of the probe loop: i < requests.
LoopRuns(i, requests) == i < requests

\* The condition of the delay that follows a probe: i < requests - 1.
DelayFollowsAlways(i, requests) == i < requests

DelayFollows(i, requests) == i < requests - 1

\* The entry pushed for probe i (counted from 0) that ended with `status`
\* (0: no answer): status is error.response?.status || 'ERROR' on failure.
ProbeEntryFromZero(i, status) ==
  [request |-> i, success |-> status # 0 /\ AxiosDefaultAccepts(status),
   status |-> IF status = 0 THEN "ERROR" ELSE ToString(status)]

ProbeEntry(i, status) ==
  [request |-> i + 1, success |-> status # 0 /\ AxiosDefaultAccepts(status),
   status |-> IF status = 0 THEN "ERROR" ELSE ToString(status)]

\* One line of the details of the summary.
HealthLine(entry) ==
  (IF entry.success THEN "OK" ELSE "FAIL") \o " Peticion "
    \o ToString(entry.request) \o ": " \o entry.status

\* The text the health check returns: the counts, then a line per entry.
HealthText(results, successCount, requests) ==
  <<"Health Check Results",
    "Exitosas: " \o ToString(successCount) \o "/" \o ToString(requests),
    "Detalles:">> \o [k \in 1..Len(results) |-> HealthLine(results[k])]

ProbeOp(i, requests) ==
  [kind |-> "probe", timed |-> TRUE, pid |-> 0, i |-> i, requests |-> requests]

\* testEndpointHealth up to its first await: the first axios.get, or the
\* summary at once when the loop does not run.
testEndpointHealth(args) ==
  IF ~args.defined THEN Throws(TypeError, 1)
  ELSE
    LET requests == IF Get(args, "requests").t = "undefined" THEN DefaultRequests
                    ELSE Get(args, "requests").n
    IN IF LoopRuns(0, requests)
       THEN Awaits(ProbeOp(0, requests), 1)
              @@ [loc |-> [NoLocals EXCEPT !.log = <<"probe">>]]
       ELSE Returns(FALSE, HealthText(<<>>, 0, requests), 1)

(***************************************************************************)
(* Saved requests: one file ./mcp-requests/<collection>.json per           *)
(* collection, holding the JSON of an object { name: config + savedAt }.   *)
(***************************************************************************)
\* A JavaScript object, by its own properties.
JsObject(f) == [t |-> "object", v |-> f]
NoProperties == [k \in {} |-> Undef]
\* The properties every object inherits from Object.prototype.
ObjectPrototype == {"constructor", "toString", "valueOf", "hasOwnProperty"}
Inherited == [t |-> "function"]

\* object[key]: the own property, else the inherited one, else undefined.
Lookup(o, key) ==
  IF key \in DOMAIN o THEN o[key]
  ELSE IF key \in ObjectPrototype THEN Inherited ELSE Undef

\* object[key] = value
Assign(o, key, value) ==
  [k \in DOMAIN o \cup {key} |-> IF k = key THEN value ELSE o[k]]

\* The key a value names when it indexes an object.
PropertyKey(v) == IF v.t = "string" THEN v.s ELSE "undefined"

\* JSON.stringify(requests, null, 2): the text of the own properties.
JSONstringify(o) == [kind |-> "text", json |-> TRUE, v |-> o]
\* JSON.parse(data) of a file's text: the object, or a SyntaxError.
JSONparses(data) == data.kind = "text" /\ data.json
JSONparse(data) == data.v

\* new Date().toISOString()
SavedAt == Str("savedAt")
\* { ...config, savedAt: new Date().toISOString() }
SavedEntry(config) ==
  LET own == IF config.t = "object" THEN config.v ELSE NoProperties
  IN JsObject([k \in DOMAIN own \cup {"savedAt"} |->
                 IF k = "savedAt" THEN SavedAt ELSE own[k]])

\* const { name, collection = 'default' } = args
CollectionOf(args) ==
  IF Get(args, "collection").t = "undefined" THEN "default"
  ELSE Get(args, "collection").s

FsOp(kind, args) ==
  [kind |-> kind, timed |-> TRUE, pid |-> 0, opened |-> FALSE,
   name |-> PropertyKey(Get(args, "name")), collection |-> CollectionOf(args)]

\* saveRequest up to `await fs.mkdir(dataDir, { recursive: true })`.
saveRequest(args) ==
  IF ~args.defined THEN Throws(TypeError, 1)
  ELSE Awaits(FsOp("mkdir", args), 1)

\* loadRequest up to `await fs.readFile(filePath, 'utf8')`.
loadRequest(args) ==
  IF ~args.defined THEN Throws(TypeError, 1)
  ELSE Awaits(FsOp("readFile", args), 1)

\* saveRequest after its readFile: the object it will write.  A file that
\* is absent or does not parse leaves requests = {}.
saveRequestMerges(data, name, config) ==
  Assign(IF JSONparses(data) THEN JSONparse(data) ELSE NoProperties,
         name, SavedEntry(config))

\* loadRequest after its readFile, for the file contents `data`: the request
\* found and what the handler returns or throws.
loadRequestFinds(data, name) ==
  IF JSONparses(data) THEN Lookup(JSONparse(data), name) ELSE Undef

loadRequestAfterRead(data, name, collection) ==
  IF data.kind = "absent"
  THEN Throws(PlainError(<<"Error al cargar la peticion: ", "ENOENT">>), 1)
  ELSE IF ~JSONparses(data)
  THEN Throws(PlainError(<<"Error al cargar la peticion: ",
                           "Unexpected end of JSON input">>), 1)
  ELSE IF ~Truthy(Lookup(JSONparse(data), name))
  THEN Throws(PlainError(<<"Error al cargar la peticion: ", "Peticion '", name,
                           "' no encontrada en la coleccion '", collection, "'">>), 1)
  ELSE Returns(FALSE, <<"Peticion cargada", name, collection>>, 1)

ApiSwitch(tool, args) ==
  CASE tool = "send_http_request" -> sendHttpRequest(args)
    [] tool = "test_endpoint_health" -> testEndpointHealth(args)
    [] tool = "save_request" -> saveRequest(args)
    [] tool = "load_request" -> loadRequest(args)
    [] tool \notin ApiRouted ->
         Throws(PlainError(<<"Herramienta desconocida: ", tool>>), 0)

\* The tool names and arguments the model sends to the API tester.
ApiToolArgs ==
  {<<"send_http_request", a>> : a \in
     {NoArgs, EmptyObj,
      Obj([url |-> Str("http://x/y")]),
      Obj([url |-> Str("http://x/y"), validateStatus |-> Bool(TRUE)]),
      Obj([url |-> Str("http://x/y"), validateStatus |-> Bool(FALSE)]),
      Obj([url |-> Str("http://x/y"), method |-> Num(7)])}}
  \cup {<<"delete_request", EmptyObj>>}

\* The call-tool request handler of the API tester, from the request to the
\* handler's first await (or to its return).
ApiCallTool(tool, args) ==
  /\ daemon = "api"
  /\ \E c \in Slots : Free(c)
  /\ LET r0 == ApiSwitch(tool, args)
         r == IF r0.k = "throw" THEN ApiCatch(r0.err, r0.invoked) ELSE r0
     IN calls' = [calls EXCEPT ![NextSlot] =
                    [NewCall(tool, args, r) EXCEPT !.threw = (r0.k = "throw")]]
  /\ UNCHANGED <<daemon, pool, pools, axiosBuild, proc, db, dataDir, pw>>

\* sendHttpRequest after its await: the target answered with `status`, or
\* did not answer (status 0).  A resolved promise is formatted as the
\* result; a rejected one goes through the handler's own catch block.
axiosSettles(c, status) ==
  /\ daemon = "api"
  /\ InFlight(c)
  /\ calls[c].op.kind = "http"
  /\ calls[c].op.url.t # "string" => status = 0
  /\ LET r == IF status # 0 /\ AxiosAccepts(axiosBuild, calls[c].op.validateStatus, status)
              THEN Returns(FALSE, <<"Peticion exitosa", "Estado:", ToString(status)>>, 1)
              ELSE Returns(TRUE, <<"Error en la peticion", "status:", ToString(status)>>, 1)
     IN calls' = [calls EXCEPT ![c].pc = "done", ![c].op = NoOp,
                               ![c].httpStatus = status, ![c].resp = Settle(r)]
  /\ UNCHANGED <<daemon, pool, pools, axiosBuild, proc, db, dataDir, pw>>

InitApi ==
  /\ daemon = "api"
  /\ calls = [c \in Slots |-> Idle]
  /\ pool = 0
  /\ pools = [i \in {} |-> 0]
  /\ axiosBuild \in AxiosBuilds
  /\ proc = Running
  /\ db = NoDb
  /\ dataDir = NoFiles
  /\ pw = NoPw

NextApi ==
  \/ \E ta \in ApiToolArgs : ApiCallTool(ta[1], ta[2])
  \/ \E c \in Slots : \E status \in HttpStatuses \cup {0} : axiosSettles(c, status)

SpecApi == InitApi /\ [][NextApi]_vars

\* SIGINT reaches the API tester: its handler closes the server and calls
\* process.exit(0); it does not wait for the calls whose handler is pending.
ApiSigint ==
  /\ daemon = "api"
  /\ proc = Running
  /\ proc' = Exited("exit(0)")
  /\ UNCHANGED <<daemon, calls, pool, pools, axiosBuild, db, dataDir, pw>>

NextApiSignal ==
  \/ proc = Running /\ NextApi
  \/ ApiSigint

SpecApiSignal == InitApi /\ [][NextApiSignal]_vars

\* The health checks the model sends.
HealthToolArgs ==
  {<<"test_endpoint_health", a>> : a \in
     {NoArgs,
      Obj([url |-> Str("http://x/health")]),
      Obj([url |-> Str("http://x/health"), requests |-> Num(0)]),
      Obj([url |-> Str("http://x/health"), requests |-> Num(1)]),
      Obj([url |-> Str("http://x/health"), requests |-> Num(3), interval |-> Num(10)])}}

\* testEndpointHealth after `await axios.get`: the entry of the probe is
\* pushed; then the delay starts, or the loop ends and the summary returns.
probeSettles(c, status) ==
  /\ daemon = "api"
  /\ InFlight(c)
  /\ calls[c].op.kind = "probe"
  /\ LET op == calls[c].op
         entry == ProbeEntry(op.i, status)
         results == Append(calls[c].loc.results, entry)
         successCount == calls[c].loc.successCount + (IF entry.success THEN 1 ELSE 0)
         log == Append(calls[c].loc.log, "settled")
     IN IF DelayFollows(op.i, op.requests)
        THEN calls' = [calls EXCEPT ![c].op.kind = "delay",
                         ![c].loc = [results |-> results, successCount |-> successCount,
                                     log |-> Append(log, "delay")]]
        ELSE IF LoopRuns(op.i + 1, op.requests)
        THEN calls' = [calls EXCEPT ![c].op.i = op.i + 1,
                         ![c].loc = [results |-> results, successCount |-> successCount,
                                     log |-> Append(log, "probe")]]
        ELSE calls' = [calls EXCEPT ![c].pc = "done", ![c].op = NoOp,
                         ![c].loc = [results |-> results, successCount |-> successCount,
                                     log |-> log],
                         ![c].resp = ResultResponse(FALSE,
                                       HealthText(results, successCount, op.requests))]
  /\ UNCHANGED <<daemon, pool, pools, axiosBuild, proc, db, dataDir, pw>>

\* testEndpointHealth after the setTimeout of the interval: the loop goes on
\* with the next probe, or ends and the summary returns.
intervalElapses(c) ==
  /\ daemon = "api"
  /\ InFlight(c)
  /\ calls[c].op.kind = "delay"
  /\ LET op == calls[c].op
         log == Append(calls[c].loc.log, "elapsed")
     IN IF LoopRuns(op.i + 1, op.requests)
        THEN calls' = [calls EXCEPT ![c].op.kind = "probe", ![c].op.i = op.i + 1,
                         ![c].loc.log = Append(log, "probe")]
        ELSE calls' = [calls EXCEPT ![c].pc = "done", ![c].op = NoOp,
                         ![c].loc.log = log,
                         ![c].resp = ResultResponse(FALSE,
                                       HealthText(calls[c].loc.results,
                                                  calls[c].loc.successCount, op.requests))]
  /\ UNCHANGED <<daemon, pool, pools, axiosBuild, proc, db, dataDir, pw>>

\* The client of this specification sends its health checks one at a time:
\* the handler keeps its state in locals, so its calls do not interact.
NextHealth ==
  \/ \E ta \in HealthToolArgs :
       (\A c \in Slots : ~InFlight(c)) /\ ApiCallTool(ta[1], ta[2])
  \/ \E c \in Slots : \E status \in HttpStatuses \cup {0} : probeSettles(c, status)
  \/ \E c \in Slots : intervalElapses(c)

SpecHealth == InitApi /\ [][NextHealth]_vars

\* The saved-request calls the model sends.
RequestToolArgs ==
  {<<"save_request", a>> : a \in
     {NoArgs,
      Obj([name |-> Str("obtener_usuario"),
           config |-> JsObject([url |-> Str("http://x/users/1")])]),
      Obj([name |-> Str("obtener_usuario"),
           config |-> JsObject([url |-> Str("http://x/users/2"), method |-> Str("GET")])]),
      Obj([name |-> Str("crear_usuario"),
           config |-> JsObject([url |-> Str("http://x/users"), method |-> Str("POST")])]),
      Obj([name |-> Str("obtener_usuario"), collection |-> Str("api_usuarios"),
           config |-> JsObject([url |-> Str("http://x/users/1")])])}}
  \cup
  {<<"load_request", a>> : a \in
     {Obj([name |-> Str("obtener_usuario")]),
      Obj([name |-> Str("crear_usuario")]),
      Obj([name |-> Str("constructor")]),
      Obj([name |-> Str("obtener_usuario"), collection |-> Str("api_usuarios")])}}

\* saveRequest after `await fs.mkdir`: the directory exists; the file of the
\* collection is read next.
mkdirSettles(c) ==
  /\ daemon = "api"
  /\ InFlight(c)
  /\ calls[c].op.kind = "mkdir"
  /\ calls' = [calls EXCEPT ![c].op.kind = "readFile"]
  /\ UNCHANGED <<daemon, pool, pools, axiosBuild, proc, db, dataDir, pw>>

\* The readFile of a handler settles with what the file holds at this
\* moment.  saveRequest sets requests[name] and starts writing the file;
\* loadRequest returns the request it finds or throws, and the handler's
\* catch block turns the throw into the error envelope.
readFileSettles(c) ==
  /\ daemon = "api"
  /\ InFlight(c)
  /\ calls[c].op.kind = "readFile"
  /\ LET op == calls[c].op
         data == dataDir[op.collection]
     IN IF calls[c].tool = "save_request"
        THEN calls' = [calls EXCEPT
                         ![c].op.kind = "writeFile",
                         ![c].loc = [requests |->
                            saveRequestMerges(data, op.name,
                                              Get(calls[c].args, "config"))]]
        ELSE LET r0 == loadRequestAfterRead(data, op.name, op.collection)
                 r == IF r0.k = "throw" THEN ApiCatch(r0.err, r0.invoked) ELSE r0
             IN calls' = [calls EXCEPT
                            ![c].pc = "done", ![c].op = NoOp,
                            ![c].threw = (r0.k = "throw"),
                            ![c].loc = [request |-> loadRequestFinds(data, op.name)],
                            ![c].resp = Settle(r)]
  /\ UNCHANGED <<daemon, pool, pools, axiosBuild, proc, db, dataDir, pw>>

\* fs.writeFile opens the file for writing: it is created or truncated.
writeFileOpens(c) ==
  /\ daemon = "api"
  /\ InFlight(c)
  /\ calls[c].op.kind = "writeFile"
  /\ ~calls[c].op.opened
  /\ calls' = [calls EXCEPT ![c].op.opened = TRUE]
  /\ dataDir' = [dataDir EXCEPT ![calls[c].op.collection] = EmptyText]
  /\ UNCHANGED <<daemon, pool, pools, axiosBuild, proc, db, pw>>

\* fs.writeFile writes the text and resolves: saveRequest returns.
writeFileSettles(c) ==
  /\ daemon = "api"
  /\ InFlight(c)
  /\ calls[c].op.kind = "writeFile"
  /\ calls[c].op.opened
  /\ dataDir' = [dataDir EXCEPT ![calls[c].op.collection] =
                   JSONstringify(calls[c].loc.requests)]
  /\ calls' = [calls EXCEPT
                 ![c].pc = "done", ![c].op = NoOp,
                 ![c].resp = ResultResponse(FALSE,
                    <<"Peticion guardada exitosamente", calls[c].op.name,
                      calls[c].op.collection>>)]
  /\ UNCHANGED <<daemon, pool, pools, axiosBuild, proc, db, pw>>

NextRequests ==
  \/ \E ta \in RequestToolArgs : ApiCallTool(ta[1], ta[2])
  \/ \E c \in Slots : mkdirSettles(c)
  \/ \E c \in Slots : readFileSettles(c)
  \/ \E c \in Slots : writeFileOpens(c)
  \/ \E c \in Slots : writeFileSettles(c)

SpecRequests == InitApi /\ [][NextRequests]_vars

(***************************************************************************)
(* Memory daemon.                                                          *)
(*                                                                         *)
(* The constructor starts opening the sqlite database and returns; the     *)
(* open callback issues CREATE TABLE IF NOT EXISTS, which completes later. *)
(* run() connects the transport without waiting for either.  A statement   *)
(* issued before the database is open waits for the open; once the         *)
(* database is open a statement runs against whatever tables exist.        *)
(***************************************************************************)
MemRouted ==
  {"store_memory", "search_memories", "get_recent_memories", "delete_memory",
   "list_memory_tags", "cleanup_old_memories"}

\* The most rows the model stores: ids are never reused.
MaxRows == 2

DefaultLimit == 10

\* The catch block of the call-tool handler of the memory daemon.
MemCatch(e) ==
  IF e.mcp THEN e
  ELSE McpError("InternalError", <<"Memory operation failed: ">> \o e.msg)

SqlOp(stmt, params) ==
  [kind |-> "sql", timed |-> FALSE, pid |-> 0, stmt |-> stmt, params |-> params]

\* x || d
OrElse(x, d) == IF Truthy(x) THEN x ELSE d

\* storeMemory up to `await this.runAsync(sql, [...])`.
storeMemory(args) ==
  IF ~args.defined THEN Throws(TypeError, 1)
  ELSE Awaits(SqlOp("insert",
                    [content |-> Get(args, "content"),
                     tags |-> OrElse(Get(args, "tags"), Arr(<<>>)).a,
                     project_path |-> OrElse(Get(args, "project_path"), Str("")).s]), 1)

\* searchMemories up to `await this.allAsync(sql, params)`: the WHERE
\* clause gets a term for args.query and one for args.project_path.
searchMemories(args) ==
  IF ~args.defined THEN Throws(TypeError, 1)
  ELSE Awaits(SqlOp("select",
                    [query |-> Get(args, "query"),
                     project_path |-> Get(args, "project_path"),
                     limit |-> OrElse(Get(args, "limit"), Num(DefaultLimit)).n]), 1)

deleteMemory(memoryId) == Awaits(SqlOp("delete", [id |-> memoryId]), 1)

MemSwitch(tool, args) ==
  CASE tool = "store_memory" -> storeMemory(args)
    [] tool = "search_memories" -> searchMemories(args)
    [] tool = "delete_memory" ->
         IF ~args.defined THEN Throws(TypeError, 0)
         ELSE deleteMemory(Get(args, "memory_id"))
    [] tool \notin MemRouted ->
         Throws(McpError("MethodNotFound", <<"Unknown tool: ", tool>>), 0)

\* The prefix each handler puts before the message of a failed statement.
MemHandlerError(stmt, msg) ==
  McpError("InternalError",
    <<CASE stmt = "insert" -> "Failed to store memory: "
        [] stmt = "select" -> "Search failed: "
        [] stmt = "delete" -> "Delete failed: ",
      msg>>)

\* content LIKE '%query%'
Like(content, query) ==
  \E i \in 1..(Len(content) + 1) :
    /\ i + Len(query) - 1 <= Len(content)
    /\ SubSeq(content, i, i + Len(query) - 1) = query

\* The rows of the SELECT of searchMemories: those the WHERE clause keeps,
\* newest first, at most `limit` of them.
Newest(rows) == [k \in 1..Len(rows) |-> rows[Len(rows) + 1 - k]]

SelectMemories(rows, params) ==
  LET keep(m) ==
        /\ Truthy(params.query) => Like(m.content, params.query.a)
        /\ Truthy(params.project_path) => m.project_path = params.project_path.s
      kept == SelectSeq(Newest(rows), keep)
  IN SubSeq(kept, 1, IF params.limit < Len(kept) THEN params.limit ELSE Len(kept))

\* One entry of the text of the search result: the id and the tags.
MemoryLine(m) ==
  "[" \o ToString(m.id) \o "] tags " \o ToString(Len(m.tags))

MemToolArgs ==
  {<<"store_memory", a>> : a \in
     {Obj([content |-> Chars(<<"a", "b">>), tags |-> Arr(<<"x">>)]),
      Obj([content |-> Chars(<<"b">>), tags |-> Arr(<<"y">>), project_path |-> Str("/p")]),
      Obj([content |-> Chars(<<"b">>)])}}
  \cup {<<"search_memories", a>> : a \in
     {NoArgs, EmptyObj,
      Obj([tags |-> Arr(<<"x">>)]),
      Obj([query |-> Chars(<<"b">>), tags |-> Arr(<<"y">>)]),
      Obj([tags |-> Arr(<<"x">>), project_path |-> Str("/p"), limit |-> Num(1)])}}
  \cup {<<"delete_memory", a>> : a \in {Obj([memory_id |-> Num(1)])}}
  \cup {<<"forget_all", EmptyObj>>}

\* The call-tool request handler of the memory daemon, from the request to
\* the handler's first await (or to its throw).
MemCallTool(tool, args) ==
  /\ daemon = "memory"
  /\ \E c \in Slots : Free(c)
  /\ LET r0 == MemSwitch(tool, args)
         r == IF r0.k = "throw" THEN Throws(MemCatch(r0.err), r0.invoked) ELSE r0
     IN calls' = [calls EXCEPT ![NextSlot] = NewCall(tool, args, r)]
  /\ UNCHANGED <<daemon, pool, pools, axiosBuild, proc, db, dataDir, pw>>

\* The callback of new sqlite3.Database: on success initializeTables issues
\* the CREATE TABLE; on failure the error is logged and nothing else is done.
MemOpenCompletes(ok) ==
  /\ daemon = "memory"
  /\ db.state = "opening"
  /\ db' = [db EXCEPT !.state = IF ok THEN "creating" ELSE "failed"]
  /\ UNCHANGED <<daemon, calls, pool, pools, axiosBuild, proc, dataDir, pw>>

\* The CREATE TABLE IF NOT EXISTS of initializeTables completes.
initializeTables ==
  /\ daemon = "memory"
  /\ db.state = "creating"
  /\ db' = [db EXCEPT !.state = "ready", !.table = TRUE]
  /\ UNCHANGED <<daemon, calls, pool, pools, axiosBuild, proc, dataDir, pw>>

\* A statement of runAsync / allAsync completes and its handler goes on to
\* its return or throw.  It waits while the database is opening.
MemStatementSettles(c) ==
  /\ daemon = "memory"
  /\ InFlight(c)
  /\ calls[c].op.kind = "sql"
  /\ db.state # "opening"
  /\ LET op == calls[c].op
         fail(msg) ==
           /\ Finish(c, Throws(MemCatch(MemHandlerError(op.stmt, msg)), 1))
           /\ UNCHANGED db
     IN IF db.state = "failed" THEN fail("SQLITE_MISUSE: Database handle is closed")
        ELSE IF ~db.table THEN fail("SQLITE_ERROR: no such table: memories")
        ELSE CASE op.stmt = "insert" ->
                    IF op.params.content.t = "undefined"
                    THEN fail("SQLITE_CONSTRAINT: NOT NULL constraint failed")
                    ELSE LET id == db.lastId + 1
                             m == [id |-> id, content |-> op.params.content.a,
                                   tags |-> op.params.tags,
                                   project_path |-> op.params.project_path]
                         IN /\ db' = [db EXCEPT !.lastId = id, !.rows = Append(@, m)]
                            /\ Finish(c, Returns(FALSE,
                                 <<"Memory stored! ID: ", ToString(id)>>, 1))
               [] op.stmt = "select" ->
                    LET memories == SelectMemories(db.rows, op.params)
                    IN /\ UNCHANGED db
                       /\ calls' = [calls EXCEPT ![c].pc = "done", ![c].op = NoOp,
                            ![c].loc.results = memories,
                            ![c].resp = ResultResponse(FALSE,
                              IF Len(memories) = 0 THEN <<"No memories found.">>
                              ELSE <<"Found " \o ToString(Len(memories)) \o " memories:">>
                                   \o [k \in 1..Len(memories) |-> MemoryLine(memories[k])])]
               [] op.stmt = "delete" ->
                    LET gone == \E k \in 1..Len(db.rows) : Num(db.rows[k].id) = op.params.id
                        keep(m) == Num(m.id) # op.params.id
                    IN /\ db' = [db EXCEPT !.rows = SelectSeq(@, keep)]
                       /\ Finish(c, Returns(FALSE,
                            <<IF gone THEN "deleted successfully" ELSE "not found">>, 1))
  /\ UNCHANGED <<daemon, pool, pools, axiosBuild, proc, dataDir, pw>>

\* The constructor has run: the database is being opened; the file is new,
\* or holds the table of an earlier run.
InitMem ==
  /\ daemon = "memory"
  /\ calls = [c \in Slots |-> Idle]
  /\ pool = 0
  /\ pools = [i \in {} |-> 0]
  /\ axiosBuild = "none"
  /\ proc = Running
  /\ dataDir = NoFiles
  /\ pw = NoPw
  /\ \E existed \in BOOLEAN :
       db = [state |-> "opening", table |-> existed, lastId |-> 0, rows |-> <<>>]

NextMem ==
  \/ \E ta \in MemToolArgs :
       /\ ta[1] = "store_memory" => db.lastId + Cardinality({c \in Slots :
            InFlight(c) /\ calls[c].tool = "store_memory"}) < MaxRows
       /\ MemCallTool(ta[1], ta[2])
  \/ \E ok \in BOOLEAN : MemOpenCompletes(ok)
  \/ initializeTables
  \/ \E c \in Slots : MemStatementSettles(c)

SpecMem == InitMem /\ [][NextMem]_vars

(***************************************************************************)
(* Playwright daemon: the original server ("playwright") and the optimised *)
(* server ("playwright-opt"), which folds open, close and switch into      *)
(* playwright_browser.                                                     *)
(***************************************************************************)
PwDaemons == {"playwright", "playwright-opt"}

\* The call-tool switch of the original server: the method of each case.
PwHandlers ==
  [playwright_open |-> "openPage", playwright_click |-> "clickElement",
   playwright_fill |-> "fillInput", playwright_screenshot |-> "takeScreenshot",
   playwright_text |-> "extractText", playwright_wait_for |-> "waitFor",
   playwright_execute_script |-> "executeScript",
   playwright_test_runner |-> "runTestSuite",
   playwright_assert |-> "performAssertion",
   playwright_network_mock |-> "setupNetworkMock",
   playwright_device_emulation |-> "setupDeviceEmulation",
   playwright_close_browser |-> "closeBrowser"]

\* The call-tool switch of the optimised server.
PwOptHandlers ==
  [playwright_browser |-> "manageBrowser", playwright_click |-> "clickElement",
   playwright_fill |-> "fillInput", playwright_screenshot |-> "takeScreenshot",
   playwright_text |-> "extractText", playwright_wait_for |-> "waitFor",
   playwright_execute_script |-> "executeScript",
   playwright_test |-> "runTest", playwright_config |-> "applyAdvancedConfig"]

\* The names the call-tool switch of server d routes to a handler.
PwRouted(d) ==
  IF d = "playwright" THEN DOMAIN PwHandlers ELSE DOMAIN PwOptHandlers
\* The most pages and browser instances the model creates.
MaxPages == 2
MaxLaunches == 2

\* The catch block of the call-tool handler.
PwCatch(e) ==
  IF e.mcp THEN e
  ELSE McpError("InternalError", <<"Playwright operation failed: ">> \o e.msg)

\* The catch block of a handler: openPage and closeBrowser wrap every error,
\* manageBrowser rethrows an McpError and wraps the others.
PwHandlerError(d, tool, e) ==
  IF d = "playwright"
  THEN McpError("InternalError",
         <<IF tool = "playwright_open" THEN "Failed to open page: "
           ELSE "Failed to close browser: ">> \o e.msg)
  ELSE IF e.mcp THEN e
  ELSE McpError("InternalError", <<"Browser management failed: ">> \o e.msg)

PwOp(kind, type, inst, page, opens) ==
  [kind |-> kind, timed |-> TRUE, pid |-> 0, type |-> type, inst |-> inst,
   page |-> page, opens |-> opens]

\* args.browser || this.config.defaultBrowser
BrowserOf(v) == IF Truthy(v) THEN v.s ELSE "chromium"

\* The next registered browser a close-all loop visits, "" when none is left.
NextToClose(p, visited) ==
  LET left == {t \in BrowserTypes \ visited : p.browsers[t] # 0}
  IN IF left = {} THEN ""
     ELSE IF "chromium" \in left THEN "chromium" ELSE "firefox"

\* this.browsers.clear(); this.pages.clear(); this.currentPage = null; ...
PwCleared(p) ==
  [p EXCEPT !.browsers = [t \in BrowserTypes |-> 0], !.pages = {},
            !.currentPage = 0, !.currentContext = 0]

\* openPage, and case 'open' of manageBrowser, up to the first await.
openPage(d, tool, url, browser, p) ==
  LET type == BrowserOf(browser)
  IN IF d = "playwright-opt" /\ ~Truthy(url)
     THEN Throws(McpError("InvalidParams", <<"URL is required for open action">>), 1)
     ELSE IF p.browsers[type] = 0
     THEN Awaits(PwOp("launch", type, 0, 0, TRUE), 1)
     ELSE Awaits(PwOp("newContext", type, p.browsers[type], 0, TRUE), 1)

\* closeBrowser, which closes every browser whatever its arguments say.
closeBrowser(p) ==
  IF NextToClose(p, {}) = ""
  THEN [r |-> Returns(FALSE, <<"Closed ", "0", " browser(s) successfully">>, 1),
        pw |-> PwCleared(p)]
  ELSE [r |-> Awaits(PwOp("closeAll", NextToClose(p, {}),
                          p.browsers[NextToClose(p, {})], 0, FALSE), 1), pw |-> p]

\* case 'close' of manageBrowser: every browser, or the one of browser_type.
manageBrowserClose(browser_type, p) ==
  LET target == IF Truthy(browser_type) THEN browser_type.s ELSE "all"
  IN IF target = "all" THEN closeBrowser(p)
     ELSE IF p.browsers[target] = 0
     THEN [r |-> Returns(FALSE, <<"Closed ", "0", " browser instance(s)">>, 1), pw |-> p]
     ELSE [r |-> Awaits(PwOp("closeOne", target, p.browsers[target], 0, FALSE), 1),
           pw |-> p]

\* case 'switch' of manageBrowser: the first context of the target browser
\* and its first page become the current ones.
manageBrowserSwitch(browser, p) ==
  LET type == BrowserOf(browser)
      inst == p.browsers[type]
      contexts == {i \in 1..Len(p.owner) : p.owner[i] = inst /\ inst \in p.live}
      first == CHOOSE i \in contexts : \A j \in contexts : i <= j
  IN IF inst = 0
     THEN [r |-> Throws(McpError("InvalidParams",
                   <<"No ", type, " browser instance found">>), 1), pw |-> p]
     ELSE [r |-> Returns(FALSE, <<"Switched to ", type, " browser">>, 1),
           pw |-> IF contexts = {} THEN p
                  ELSE [p EXCEPT !.currentContext = first, !.currentPage = first]]

manageBrowser(args, p) ==
  LET action == Get(args, "action")
  IN CASE action = Str("open") ->
            [r |-> openPage("playwright-opt", "playwright_browser", Get(args, "url"),
                            Get(args, "browser"), p), pw |-> p]
       [] action = Str("close") -> manageBrowserClose(Get(args, "browser_type"), p)
       [] action = Str("switch") -> manageBrowserSwitch(Get(args, "browser"), p)
       [] OTHER -> [r |-> Throws(McpError("InvalidParams", <<"Invalid action">>), 1),
                    pw |-> p]

\* clickElement up to `await this.currentPage.click(...)`.
clickElement(args, p) ==
  IF p.currentPage = 0
  THEN Throws(McpError("InvalidRequest", <<"No page is currently open">>), 1)
  ELSE IF ~args.defined THEN Throws(TypeError, 1)
  ELSE Awaits(PwOp("click", "", p.owner[p.currentPage], p.currentPage, FALSE), 1)

\* The switch of the call-tool handler with the handler's synchronous part.
PwSwitch(d, tool, args, p) ==
  CASE d = "playwright" /\ tool = "playwright_open" ->
         [r |-> IF ~args.defined
                THEN Throws(PwHandlerError(d, tool, TypeError), 1)
                ELSE openPage(d, tool, Get(args, "url"), Get(args, "browser"), p),
          pw |-> p]
    [] d = "playwright" /\ tool = "playwright_close_browser" -> closeBrowser(p)
    [] d = "playwright-opt" /\ tool = "playwright_browser" ->
         IF ~args.defined THEN [r |-> Throws(TypeError, 1), pw |-> p]
         ELSE manageBrowser(args, p)
    [] tool = "playwright_click" -> [r |-> clickElement(args, p), pw |-> p]
    [] tool \notin PwRouted(d) ->
         [r |-> Throws(McpError("MethodNotFound", <<"Unknown tool: ", tool>>), 0),
          pw |-> p]

PwIsOpen(tool, args) ==
  \/ tool = "playwright_open"
  \/ tool = "playwright_browser" /\ Get(args, "action") = Str("open")

\* The call-tool request handler of the Playwright daemon, from the request
\* to the handler's first await (or to its return or throw).
PwCallTool(tool, args) ==
  /\ daemon \in PwDaemons
  /\ \E c \in Slots : Free(c)
  /\ LET h == PwSwitch(daemon, tool, args, pw)
         r == IF h.r.k = "throw" THEN Throws(PwCatch(h.r.err), h.r.invoked) ELSE h.r
     IN /\ calls' = [calls EXCEPT ![NextSlot] = NewCall(tool, args, r)]
        /\ pw' = h.pw
  /\ UNCHANGED <<daemon, pool, pools, axiosBuild, proc, db, dataDir>>

\* The handler of call c throws e from inside its try block.
PwFails(c, e) ==
  Finish(c, Throws(PwCatch(PwHandlerError(daemon, calls[c].tool, e)), 1))

\* `await launcher.launch(...)` settles: the browser is registered under its
\* type and the context is asked for.
launchSettles(c, ok) ==
  /\ daemon \in PwDaemons
  /\ InFlight(c)
  /\ calls[c].op.kind = "launch"
  /\ IF ok
     THEN LET inst == pw.launched + 1
          IN /\ pw' = [pw EXCEPT !.launched = inst, !.live = @ \cup {inst},
                                 !.browsers[calls[c].op.type] = inst]
             /\ calls' = [calls EXCEPT ![c].op.kind = "newContext", ![c].op.inst = inst]
     ELSE /\ PwFails(c, PlainError(<<"Failed to launch">>))
          /\ UNCHANGED pw
  /\ UNCHANGED <<daemon, pool, pools, axiosBuild, proc, db, dataDir>>

\* `await browser.newContext(...)` and `await context.newPage()` settle: the
\* page enters this.pages and becomes the current page, with its context,
\* and the navigation starts.
newContextSettles(c, ok) ==
  /\ daemon \in PwDaemons
  /\ InFlight(c)
  /\ calls[c].op.kind = "newContext"
  /\ ok => calls[c].op.inst \in pw.live
  /\ IF ok
     THEN LET page == Len(pw.owner) + 1
          IN /\ pw' = [pw EXCEPT !.owner = Append(@, calls[c].op.inst),
                                 !.pages = @ \cup {page},
                                 !.currentPage = page, !.currentContext = page]
             /\ calls' = [calls EXCEPT ![c].op.kind = "goto", ![c].op.page = page]
     ELSE /\ PwFails(c, PlainError(<<"Target page, context or browser has been closed">>))
          /\ UNCHANGED pw
  /\ UNCHANGED <<daemon, pool, pools, axiosBuild, proc, db, dataDir>>

\* `await page.goto(url)` settles, and with it `await page.title()`.
gotoSettles(c, ok) ==
  /\ daemon \in PwDaemons
  /\ InFlight(c)
  /\ calls[c].op.kind = "goto"
  /\ ok => calls[c].op.inst \in pw.live
  /\ IF ok
     THEN Finish(c, Returns(FALSE, <<"Page opened successfully!", calls[c].op.type>>, 1))
     ELSE PwFails(c, PlainError(<<"page.goto: net::ERR_CONNECTION_REFUSED">>))
  /\ UNCHANGED <<daemon, pool, pools, axiosBuild, proc, db, dataDir, pw>>

\* `await browser.close()` settles in a loop over this.browsers: the next
\* browser is closed, or the maps are cleared and the handler returns.
closeAllSettles(c) ==
  /\ daemon \in PwDaemons
  /\ InFlight(c)
  /\ calls[c].op.kind = "closeAll"
  /\ LET type == calls[c].op.type
         closed == [pw EXCEPT !.live = @ \ {calls[c].op.inst}]
         next == NextToClose(closed, {"chromium"} \cup {type})
     IN IF next # ""
        THEN /\ pw' = closed
             /\ calls' = [calls EXCEPT ![c].op.type = next,
                                       ![c].op.inst = closed.browsers[next]]
        ELSE /\ pw' = PwCleared(closed)
             /\ Finish(c, Returns(FALSE, <<"Closed every browser">>, 1))
  /\ UNCHANGED <<daemon, pool, pools, axiosBuild, proc, db, dataDir>>

\* `await browserInstance.close()` of a close with a browser_type settles:
\* the browser is deleted from this.browsers, and nothing else is changed.
closeOneSettles(c) ==
  /\ daemon \in PwDaemons
  /\ InFlight(c)
  /\ calls[c].op.kind = "closeOne"
  /\ pw' = [pw EXCEPT !.live = @ \ {calls[c].op.inst},
                       !.browsers[calls[c].op.type] = 0]
  /\ Finish(c, Returns(FALSE, <<"Closed ", "1", " browser instance(s)">>, 1))
  /\ UNCHANGED <<daemon, pool, pools, axiosBuild, proc, db, dataDir>>

\* `await this.currentPage.click(...)` settles; on a page whose browser was
\* closed it rejects.
clickSettles(c, ok) ==
  /\ daemon \in PwDaemons
  /\ InFlight(c)
  /\ calls[c].op.kind = "click"
  /\ ok => calls[c].op.inst \in pw.live
  /\ IF ok
     THEN Finish(c, Returns(FALSE, <<"Clicked element">>, 1))
     ELSE Finish(c, Throws(McpError("InternalError", <<"Failed to click element: ">>), 1))
  /\ UNCHANGED <<daemon, pool, pools, axiosBuild, proc, db, dataDir, pw>>

\* The tool names and arguments the model sends to the Playwright daemon.
PwToolArgs ==
  {<<"playwright_open", a>> : a \in
     {NoArgs, Obj([url |-> Str("http://localhost:3000")]),
      Obj([url |-> Str("http://localhost:3000"), browser |-> Str("firefox")])}}
  \cup {<<"playwright_close_browser", a>> : a \in
     {NoArgs, Obj([browser_type |-> Str("all")]), Obj([browser_type |-> Str("firefox")])}}
  \cup {<<"playwright_browser", a>> : a \in
     {NoArgs, Obj([action |-> Str("open")]),
      Obj([action |-> Str("open"), url |-> Str("http://localhost:3000")]),
      Obj([action |-> Str("open"), url |-> Str("http://localhost:3000"),
           browser |-> Str("firefox")]),
      Obj([action |-> Str("close")]),
      Obj([action |-> Str("close"), browser_type |-> Str("firefox")]),
      Obj([action |-> Str("close"), browser_type |-> Str("chromium")]),
      Obj([action |-> Str("switch")]),
      Obj([action |-> Str("switch"), browser |-> Str("firefox")])}}
  \cup {<<"playwright_click", Obj([selector |-> Str("#login-btn")])>>}

InitPw ==
  /\ daemon \in PwDaemons
  /\ calls = [c \in Slots |-> Idle]
  /\ pool = 0
  /\ pools = [i \in {} |-> 0]
  /\ axiosBuild = "none"
  /\ proc = Running
  /\ db = NoDb
  /\ dataDir = NoFiles
  /\ pw = NoPw

\* The opens the model sends stay within MaxPages and MaxLaunches.
PwOpensLeft ==
  LET pending == Cardinality({c \in Slots : InFlight(c) /\ calls[c].op.opens
                                              /\ calls[c].op.kind # "goto"})
  IN Len(pw.owner) + pending < MaxPages /\ pw.launched + pending < MaxLaunches

NextPw ==
  \/ \E ta \in PwToolArgs :
       /\ PwIsOpen(ta[1], ta[2]) => PwOpensLeft
       /\ PwCallTool(ta[1], ta[2])
  \/ \E c \in Slots : \E ok \in BOOLEAN : launchSettles(c, ok)
  \/ \E c \in Slots : \E ok \in BOOLEAN : newContextSettles(c, ok)
  \/ \E c \in Slots : \E ok \in BOOLEAN : gotoSettles(c, ok)
  \/ \E c \in Slots : closeAllSettles(c)
  \/ \E c \in Slots : closeOneSettles(c)
  \/ \E c \in Slots : \E ok \in BOOLEAN : clickSettles(c, ok)

SpecPw == InitPw /\ [][NextPw]_vars

(***************************************************************************)
(* Playwright daemon (optimised server): playwright_test.                  *)
(***************************************************************************)
\* The catch block of runTest wraps every error, an McpError too.
runTestError(e) == McpError("InternalError", <<"Test execution failed: ">> \o e.msg)

NoPageOpen == McpError("InvalidRequest", <<"No page is currently open">>)

\* The entry runTest pushes for an assertion whose performSingleAssertion
\* returned, with the verdict performAssertion put in its text, and the
\* entry it pushes for one that threw.
AssertionReturned(holds) ==
  [passed |-> TRUE, result |-> IF holds THEN "PASSED" ELSE "FAILED"]

AssertionThrew == [passed |-> FALSE, result |-> "error"]

\* The pending locator call of performAssertion on the current page.
AssertOp(p, i, suite) ==
  [kind |-> "assert", timed |-> TRUE, pid |-> 0, inst |-> p.owner[p.currentPage],
   page |-> p.currentPage, i |-> i, suite |-> suite]

\* The summary of the suite: allPassed and the tally of results.
TestSummary(results) ==
  LET passed == {i \in 1..Len(results) : results[i].passed}
  IN Returns(FALSE,
       <<"Status: ", IF passed = 1..Len(results) THEN "PASSED" ELSE "FAILED",
         "Assertions: ", ToString(Cardinality(passed)), "/",
         ToString(Len(results)), " passed">>, 1)

\* The assertion loop of runTest from assertion i on, to its next await:
\* without a current page every performAssertion throws at once.
TestLoop(i, results, assertions, p) ==
  IF i > Len(assertions) THEN [r |-> TestSummary(results), results |-> results]
  ELSE IF p.currentPage = 0
  THEN LET all == results \o [k \in 1..(Len(assertions) - i + 1) |-> AssertionThrew]
       IN [r |-> TestSummary(all), results |-> all]
  ELSE [r |-> Awaits(AssertOp(p, i, TRUE), 1), results |-> results]

\* runTest up to its first await.
runTest(args, p) ==
  IF ~args.defined THEN [r |-> Throws(runTestError(TypeError), 1), results |-> <<>>]
  ELSE IF Truthy(Get(args, "assertion_type"))
  THEN [r |-> IF p.currentPage = 0 THEN Throws(runTestError(NoPageOpen), 1)
              ELSE Awaits(AssertOp(p, 1, FALSE), 1),
        results |-> <<>>]
  ELSE IF ~Truthy(Get(args, "test_config"))
  THEN [r |-> Throws(runTestError(McpError("InvalidParams",
                <<"Either test_config or assertion_type is required">>)), 1),
        results |-> <<>>]
  ELSE IF "assertions" \notin DOMAIN Get(args, "test_config").v
  THEN [r |-> TestSummary(<<>>), results |-> <<>>]
  ELSE TestLoop(1, <<>>, Get(args, "test_config").v.assertions, p)

\* The tests the model sends.
PwTestToolArgs ==
  LET visible == [type |-> "visible", selector |-> "#welcome"]
      count == [type |-> "count", selector |-> "li", expected |-> 3]
  IN {<<"playwright_test", a>> : a \in
        {NoArgs, EmptyObj,
         Obj([assertion_type |-> Str("visible"), selector |-> Str("#welcome")]),
         Obj([test_config |-> JsObject([name |-> "Login"])]),
         Obj([test_config |-> JsObject([name |-> "Login", assertions |-> <<visible>>])]),
         Obj([test_config |-> JsObject([name |-> "Login",
                                        assertions |-> <<visible, count>>])])}}

\* The call-tool request handler for playwright_test, to its first await.
PwTestCallTool(tool, args) ==
  /\ daemon = "playwright-opt"
  /\ \E c \in Slots : Free(c)
  /\ LET h == runTest(args, pw)
     IN calls' = [calls EXCEPT ![NextSlot] =
                    [NewCall(tool, args, h.r) EXCEPT !.loc = [results |-> h.results]]]
  /\ UNCHANGED <<daemon, pool, pools, axiosBuild, proc, db, dataDir, pw>>

\* The locator call of performAssertion settles: the condition holds, does
\* not hold, or the call throws (no such element, page closed).  In single
\* mode the verdict is returned; in suite mode the entry is pushed and the
\* loop goes on.
assertionSettles(c, outcome) ==
  /\ daemon = "playwright-opt"
  /\ InFlight(c)
  /\ calls[c].op.kind = "assert"
  /\ LET op == calls[c].op
         entry == IF outcome = "throws" THEN AssertionThrew
                  ELSE AssertionReturned(outcome = "holds")
         results == Append(calls[c].loc.results, entry)
         h == TestLoop(op.i + 1, results,
                       Get(calls[c].args, "test_config").v.assertions, pw)
     IN IF ~op.suite
        THEN IF outcome = "throws"
             THEN Finish(c, Throws(runTestError(McpError("InternalError",
                            <<"Assertion failed: ">>)), 1))
             ELSE Finish(c, Returns(FALSE, <<"Assertion ", entry.result>>, 1))
        ELSE IF h.r.k = "await"
        THEN calls' = [calls EXCEPT ![c].op.i = op.i + 1, ![c].loc = [results |-> results]]
        ELSE calls' = [calls EXCEPT ![c].pc = "done", ![c].op = NoOp,
                                    ![c].loc = [results |-> h.results],
                                    ![c].resp = Settle(h.r)]
  /\ UNCHANGED <<daemon, pool, pools, axiosBuild, proc, db, dataDir, pw>>

\* The optimised daemon after construction, or with the page an earlier
\* playwright_browser call opened.
InitPwTest ==
  /\ daemon = "playwright-opt"
  /\ calls = [c \in Slots |-> Idle]
  /\ pool = 0
  /\ pools = [i \in {} |-> 0]
  /\ axiosBuild = "none"
  /\ proc = Running
  /\ db = NoDb
  /\ dataDir = NoFiles
  /\ \E open \in BOOLEAN :
       pw = IF open
            THEN [NoPw EXCEPT !.browsers["chromium"] = 1, !.live = {1}, !.launched = 1,
                              !.owner = <<1>>, !.pages = {1}, !.currentPage = 1,
                              !.currentContext = 1]
            ELSE NoPw

NextPwTest ==
  \/ \E ta \in PwTestToolArgs : PwTestCallTool(ta[1], ta[2])
  \/ \E c \in Slots : \E outcome \in {"holds", "fails", "throws"} :
       assertionSettles(c, outcome)

SpecPwTest == InitPwTest /\ [][NextPwTest]_vars

(***************************************************************************)
(* The two request handlers of every daemon: list-tools and the call-tool  *)
(* switch.  A handler the switch routes to is held at its first await and  *)
(* then returns or throws; what it does in between is modelled above.      *)
(***************************************************************************)

ToolDaemons == {"docker", "pg", "api", "memory", "playwright", "playwright-opt"}

\* The names of the list-tools literal of each daemon, in order.
DockerToolNamesWithLogsLost ==
  <<"docker_system_info", "list_containers", "create_container",
    "manage_container", "remove_container", "execute_in_container",
    "list_images", "pull_image", "remove_image", "manage_resources",
    "docker_prune">>

DockerToolNames ==
  <<"docker_system_info", "list_containers", "create_container",
    "manage_container", "remove_container", "container_logs",
    "execute_in_container", "list_images", "pull_image", "remove_image",
    "manage_resources", "docker_prune">>

PgToolNames == [i \in DOMAIN PgToolList |-> PgToolList[i].name]

ApiToolNames ==
  <<"send_http_request", "save_request", "load_request", "list_saved_requests",
    "test_endpoint_health", "validate_json_response">>

MemToolNames ==
  <<"store_memory", "search_memories", "get_recent_memories", "delete_memory",
    "list_memory_tags", "cleanup_old_memories">>

PwToolNames ==
  <<"playwright_open", "playwright_click", "playwright_fill",
    "playwright_screenshot", "playwright_text", "playwright_wait_for",
    "playwright_execute_script", "playwright_test_runner", "playwright_assert",
    "playwright_network_mock", "playwright_device_emulation",
    "playwright_close_browser">>

PwOptToolNames ==
  <<"playwright_browser", "playwright_click", "playwright_fill",
    "playwright_screenshot", "playwright_text", "playwright_wait_for",
    "playwright_execute_script", "playwright_test", "playwright_config">>

ToolNames(d) ==
  CASE d = "docker" -> DockerToolNames
    [] d = "pg" -> PgToolNames
    [] d = "api" -> ApiToolNames
    [] d = "memory" -> MemToolNames
    [] d = "playwright" -> PwToolNames
    [] d = "playwright-opt" -> PwOptToolNames

Routed(d) ==
  CASE d = "docker" -> DockerRouted
    [] d = "pg" -> PgRouted
    [] d = "api" -> ApiRouted
    [] d = "memory" -> MemRouted
    [] d \in PwDaemons -> PwRouted(d)

\* The method a case of the switch calls.  The tables above hold it for the
\* two Playwright servers; for the other daemons the case label stands for
\* its method.
HandlerOf(d, tool) ==
  CASE d = "playwright" -> PwHandlers[tool]
    [] d = "playwright-opt" -> PwOptHandlers[tool]
    [] OTHER -> tool

\* The catch block of the call-tool handler of daemon d.
Caught(d, e) ==
  CASE d = "docker" -> Throws(DockerCatch(e), 0)
    [] d = "pg" -> Throws(PgCatch(e), 0)
    [] d = "api" -> ApiCatch(e, 0)
    [] d = "memory" -> Throws(MemCatch(e), 0)
    [] d \in PwDaemons -> Throws(PwCatch(e), 0)

\* The default branch of the switch, through the catch block.
UnknownTool(d, tool) ==
  Caught(d, IF d = "api"
            THEN PlainError(<<"Herramienta desconocida: ", tool>>)
            ELSE McpError("MethodNotFound", <<"Unknown tool: ", tool>>))

HandlerOp(handler) ==
  [kind |-> "handler", timed |-> FALSE, pid |-> 0, handler |-> handler]

\* The names a client may send: every name some daemon lists or routes, and
\* one that none knows.
ToolInputs ==
  UNION {{ToolNames(d)[i] : i \in DOMAIN ToolNames(d)} \cup Routed(d) :
           d \in ToolDaemons}
    \cup {"no_such_tool"}

\* The list-tools request handler: it returns the literal.
ListTools ==
  /\ \E c \in Slots : Free(c)
  /\ calls' = [calls EXCEPT ![NextSlot] =
                 [Idle EXCEPT !.tool = "tools/list", !.pc = "done",
                              !.resp = ResultResponse(FALSE, ToolNames(daemon))]]
  /\ UNCHANGED <<daemon, pool, pools, axiosBuild, proc, db, dataDir, pw>>

\* The call-tool request handler up to the switch: a case enters its method,
\* any other name takes the default branch.  The client sends one call at a
\* time.
SwitchTool(tool) ==
  /\ \A c \in Slots : ~InFlight(c)
  /\ LET r == IF tool \in Routed(daemon)
              THEN Awaits(HandlerOp(HandlerOf(daemon, tool)), 1)
              ELSE UnknownTool(daemon, tool)
     IN calls' = [calls EXCEPT ![NextSlot] = NewCall(tool, NoArgs, r)]
  /\ UNCHANGED <<daemon, pool, pools, axiosBuild, proc, db, dataDir, pw>>

\* The method of call c returns, or throws into the catch block.
HandlerSettles(c, ok) ==
  /\ InFlight(c)
  /\ calls[c].op.kind = "handler"
  /\ Finish(c, IF ok THEN Returns(FALSE, <<calls[c].op.handler>>, 1)
               ELSE Caught(daemon, PlainError(<<"failed">>)))
  /\ UNCHANGED <<daemon, pool, pools, axiosBuild, proc, db, dataDir, pw>>

InitTools ==
  /\ daemon \in ToolDaemons
  /\ calls = [c \in Slots |-> Idle]
  /\ pool = 0
  /\ pools = [i \in {} |-> 0]
  /\ axiosBuild = "none"
  /\ proc = Running
  /\ db = NoDb
  /\ dataDir = NoFiles
  /\ pw = NoPw

NextTools ==
  \/ ListTools
  \/ \E tool \in ToolInputs : SwitchTool(tool)
  \/ \E c \in Slots : \E ok \in BOOLEAN : HandlerSettles(c, ok)

SpecTools == InitTools /\ [][NextTools]_vars

\* The names the Playwright README and test script require, with the method
\* each is to reach.
requiredTools ==
  [playwright_open |-> "openPage", playwright_click |-> "clickElement",
   playwright_fill |-> "fillInput", playwright_screenshot |-> "takeScreenshot",
   playwright_text |-> "extractText", playwright_close_browser |-> "closeBrowser"]

(***************************************************************************)
(* Properties.                                                             *)
(***************************************************************************)

\* The handler of the tool, not the dispatcher around it, raised the error.
HandlerRaised(c) == Done(c) /\ calls[c].threw /\ calls[c].invoked = 1

\* The result envelope of a failed call: isError = true and a text block.
IsErrorEnvelope(r) == r.kind = "result" /\ r.isError /\ Len(r.text) > 0

\* C1: every call received is eventually answered, exactly once: a call
\* that is in flight leads to the state in which its response is written.
C1_EveryCallAnswered == \A c \in Slots : InFlight(c) ~> Done(c)

\* C2: whenever a tool handler raises an error the response is a result
\* envelope with isError = true and the message as its text; no error
\* leaves the request handler as a protocol-level error.
C2_HandlerErrorsAreEnvelopes ==
  \A c \in Slots : HandlerRaised(c) => IsErrorEnvelope(calls[c].resp)

\* C6: at most one call is in flight: the handler of a second call is not
\* started while the first call is unanswered.
C6_AtMostOneInFlight == Cardinality({c \in Slots : InFlight(c)}) <= 1

\* C8: a connect_database issued while a pool is held ends that pool, and
\* the end completes, before the new pool is created: every pool that has
\* not been ended is the one this.pool refers to, so there is at most one.
C8_ReplaceNotStack ==
  /\ \A i \in PoolIds : pools[i].state \in {"open", "ending"} => i = pool
  /\ Cardinality({i \in PoolIds : pools[i].state \in {"open", "ending"}}) <= 1

\* C8 witness: a connect_database call has ended the pool it found and is
\* connecting on the pool it created in its place.
C8_Reconnected ==
  \E c \in Slots :
    /\ calls[c].tool = "connect_database" /\ InFlight(c)
    /\ calls[c].op.kind = "connect" /\ calls[c].op.pid = pool
    /\ pool > 1
    /\ \A i \in PoolIds : i # pool => pools[i].state \in {"free", "ended"}

\* C9: a call of a tool that needs a connection, made when no connection
\* is held, is answered with a result envelope with isError = true that
\* says there is no connection, and touches no database.
C9_NoConnectionIsErrorEnvelope ==
  [][\A ta \in PgToolArgs :
       (ta[1] \in PgNeedsConnection /\ ta[2].defined /\ ~PoolHeld(pool)
        /\ PgCallTool(ta[1], ta[2]))
       => LET r == calls'[NextSlot]
          IN /\ r.pc = "done" /\ ~r.ext
             /\ IsErrorEnvelope(r.resp)
             /\ r.resp.text[Len(r.resp.text)] =
                  "No database connection. Please connect first using connect_database."]_vars

\* The arguments satisfy the tool's inputSchema: every required parameter
\* is present and every parameter present has its declared type.
SchemaValid(tool, args) ==
  LET a == IF args.defined THEN args ELSE EmptyObj
  IN /\ \A k \in DockerRequired(tool) : k \in DOMAIN a.v
     /\ \A k \in DOMAIN a.v :
          DockerParamType(tool, k) \in {"any", a.v[k].t}

\* C3: a call of a tool name that is not registered is answered with a
\* result envelope with isError = true; no handler is invoked for it and
\* nothing outside the daemon is touched.
C3_UnknownToolIsErrorEnvelope ==
  \A c \in Slots :
    (daemon = "docker" /\ Done(c) /\ calls[c].tool \notin DockerRouted)
    => /\ calls[c].invoked = 0 /\ ~calls[c].ext
       /\ IsErrorEnvelope(calls[c].resp)

\* C4: a call whose arguments lack a required parameter, or carry a value
\* of the wrong type, never reaches the tool's handler and is answered
\* with a result envelope with isError = true.
C4_InvalidArgsNeverReachHandler ==
  \A c \in Slots :
    (daemon = "docker" /\ calls[c].pc # "idle"
     /\ calls[c].tool \in DockerRouted
     /\ ~SchemaValid(calls[c].tool, calls[c].args))
    => /\ calls[c].invoked = 0
       /\ Done(c) => IsErrorEnvelope(calls[c].resp)

\* C5: the handler sees the schema's defaults for the parameters the
\* caller left out: create_container with only an image runs the container
\* detached with no ports, variables or volumes; docker_prune with no
\* arguments prunes the system with force.
C5_DefaultsApplied ==
  \A c \in Slots :
    /\ (calls[c].tool = "create_container" /\ calls[c].pc # "idle"
        /\ calls[c].args.defined /\ DOMAIN calls[c].args.v = {"image"})
       => /\ calls[c].ext
          /\ InFlight(c) =>
               /\ calls[c].op.cmd.d
               /\ calls[c].op.cmd.ports = <<>>
               /\ calls[c].op.cmd.environment = <<>>
               /\ calls[c].op.cmd.volumes = <<>>
    /\ (calls[c].tool = "docker_prune" /\ InFlight(c)
        /\ calls[c].args \in {NoArgs, EmptyObj})
       => calls[c].op.cmd.type = "system" /\ calls[c].op.cmd.f

\* C7: no call stays unanswered past the execution-time ceiling: a handler
\* that does not resolve is cut off with a timeout error by then.
C7_NoCallOutlivesCeiling == \A c \in Slots : ~(InFlight(c) /\ calls[c].late)

\* The caller asked for status validation: validateStatus is truthy.
AsksValidation(c) ==
  calls[c].args.defined /\ Truthy(Get(calls[c].args, "validateStatus"))

\* The result reports the status the target answered with.
ReportsStatus(c) ==
  \E i \in 1..Len(calls[c].resp.text) :
    calls[c].resp.text[i] = ToString(calls[c].httpStatus)

ProbesOf(c) ==
  LET r == Get(calls[c].args, "requests")
  IN IF r.t = "undefined" THEN DefaultRequests ELSE r.n

HealthCall(c) ==
  calls[c].tool = "test_endpoint_health" /\ calls[c].args.defined

\* C11: probe failures never make test_endpoint_health an error: for
\* requests = N it returns one summary that is not an error, with one
\* detail entry per probe, numbered 1..N in probe order, and the success
\* count it reports is the number of entries recorded as successful.
C11_HealthSummaryPerProbe ==
  \A c \in Slots :
    (HealthCall(c) /\ Done(c))
    => LET results == calls[c].loc.results
           ok == {k \in 1..Len(results) : results[k].success}
       IN /\ calls[c].resp.kind = "result" /\ ~calls[c].resp.isError
          /\ Len(results) = ProbesOf(c)
          /\ \A k \in 1..Len(results) : results[k].request = k
          /\ calls[c].loc.successCount = Cardinality(ok)
          /\ calls[c].resp.text =
               HealthText(results, Cardinality(ok), ProbesOf(c))
          /\ Len(calls[c].resp.text) = 3 + ProbesOf(c)

\* C11 witness: a health check of three probes has returned its summary
\* with a failed probe between two successful ones.
C11_MixedProbesSummarised ==
  \E c \in Slots :
    /\ HealthCall(c) /\ Done(c) /\ ProbesOf(c) = 3
    /\ Len(calls[c].loc.results) = 3
    /\ calls[c].loc.results[1].success
    /\ ~calls[c].loc.results[2].success
    /\ calls[c].loc.results[3].success
    /\ calls[c].loc.successCount = 2

\* The events of a health check of n probes, in order: each probe is issued
\* and settles, a delay follows it and elapses before the next probe, and
\* no delay follows the last probe.
ProbeSchedule(n) ==
  [k \in 1..(4 * n - 2) |->
     CASE k % 4 = 1 -> "probe"
       [] k % 4 = 2 -> "settled"
       [] k % 4 = 3 -> "delay"
       [] OTHER -> "elapsed"]

\* C12: test_endpoint_health with requests = N >= 1 runs its probes one
\* after the other: probe i+1 is issued only after probe i has settled and
\* the interval has elapsed; a finished check has made exactly N probes and
\* N-1 delays, none after the last probe.
C12_ProbesSequential ==
  \A c \in Slots :
    (HealthCall(c) /\ calls[c].pc # "idle" /\ ProbesOf(c) >= 1)
    => LET log == calls[c].loc.log
           n == ProbesOf(c)
       IN /\ Len(log) <= 4 * n - 2
          /\ log = SubSeq(ProbeSchedule(n), 1, Len(log))
          /\ Done(c) =>
               /\ Len(log) = 4 * n - 2
               /\ Cardinality({k \in 1..Len(log) : log[k] = "probe"}) = n
               /\ Cardinality({k \in 1..Len(log) : log[k] = "delay"}) = n - 1

\* C12 witness: a health check of three probes has finished after its
\* third probe and two delays.
C12_ThreeProbesTwoDelays ==
  \E c \in Slots :
    /\ HealthCall(c) /\ Done(c) /\ ProbesOf(c) = 3
    /\ Len(calls[c].loc.log) = 10
    /\ calls[c].loc.log[10] = "settled"

\* C13: after a shutdown signal the process ends only when no call is in
\* flight and every external client it held has been closed, and it ends
\* with exit code 0.
C13_CleanShutdown ==
  proc.state = "exited"
  => /\ \A c \in Slots : ~InFlight(c)
     /\ \A i \in DOMAIN pools : pools[i].state \notin {"open", "ending"}
     /\ proc.how = "exit(0)"

\* A list-tools request is answered in slot c in this step.
ListAnswered(c) == calls'[c].tool = "tools/list" /\ calls'[c] # calls[c]

C15_TableBeforeCalls ==
  \A c \in Slots :
    (daemon = "memory" /\ calls[c].pc # "idle" /\ calls[c].tool \in MemRouted)
    => /\ db.table
       /\ Done(c) => \A k \in 1..Len(calls[c].resp.text) :
            calls[c].resp.text[k] # "SQLITE_ERROR: no such table: memories"

\* The tags a search asks for.
RequestedTags(c) ==
  LET t == Get(calls[c].args, "tags")
  IN IF t.t = "array" THEN {t.a[k] : k \in 1..Len(t.a)} ELSE {}

\* C19: search_memories called with a non-empty tags list returns only
\* memories whose stored tags contain the requested tags, whatever the
\* query, project_path and limit.
C19_SearchFiltersByTags ==
  \A c \in Slots :
    (daemon = "memory" /\ Done(c) /\ calls[c].tool = "search_memories"
     /\ calls[c].args.defined /\ RequestedTags(c) # {})
    => \A k \in 1..Len(calls[c].loc.results) :
         LET m == calls[c].loc.results[k]
         IN RequestedTags(c) \subseteq {m.tags[j] : j \in 1..Len(m.tags)}

\* A statement of a structured handler is on its way to the database.
StatementSent(c) ==
  /\ daemon = "pg" /\ calls[c].tool \in PgStructured
  /\ InFlight(c) /\ calls[c].op.kind = "query"

\* C16: every statement a structured handler sends carries the caller's
\* values as bound parameters only: its text holds literals of the code,
\* placeholders and sanitized identifiers, and no string of the caller put
\* in as it is.
C16_OnlyBoundParameters ==
  \A c \in Slots :
    StatementSent(c)
    => \A k \in 1..Len(calls[c].op.text) : calls[c].op.text[k].kind # "raw"

\* C17: in an update the placeholder $i of the caller's WHERE clause is
\* bound to whereParams[i-1], however many data columns there are.
C17_WherePlaceholderBinding ==
  \A c \in Slots :
    (StatementSent(c) /\ Get(calls[c].args, "operation") = Str("update"))
    => LET i == Get(calls[c].args, "where").ph
           whereParams == Get(calls[c].args, "whereParams").a
       IN /\ i <= Len(calls[c].op.params)
          /\ i <= Len(whereParams) => calls[c].op.params[i] = whereParams[i]

\* The allow-list of names: a simple identifier, or two joined by one dot.
AllowListed(id) ==
  \/ SimpleIdentifier(id)
  \/ \E k \in 2..(Len(id) - 1) :
       /\ id[k] = "."
       /\ SimpleIdentifier(SubSeq(id, 1, k - 1))
       /\ SimpleIdentifier(SubSeq(id, k + 1, Len(id)))

\* The table and column names the call's statement would be built from.
NamesOf(c) ==
  LET args == calls[c].args
      data == Get(args, "data")
      columns == Get(args, "columns")
  IN {Get(args, "tableName").a}
     \cup (IF calls[c].tool = "create_table" /\ columns.t = "array"
           THEN {columns.a[k].name : k \in 1..Len(columns.a)} ELSE {})
     \cup (IF /\ calls[c].tool = "crud_operations" /\ data.t = "object"
              /\ Get(args, "operation") \in {Str("insert"), Str("update")}
           THEN {data.a[k].k : k \in 1..Len(data.a)} ELSE {})

HasBadName(c) ==
  /\ daemon = "pg" /\ calls[c].tool \in PgStructured
  /\ calls[c].pc # "idle" /\ calls[c].args.defined
  /\ \E id \in NamesOf(c) : ~AllowListed(id)

Says(c, msg) ==
  \E k \in 1..Len(calls[c].resp.text) : calls[c].resp.text[k] = msg

\* C18 as stated: a call with a table or column name outside the allow-list
\* sends no statement and fails with an 'Invalid identifier' error.
C18_BadNameIsInvalidIdentifier ==
  \A c \in Slots :
    HasBadName(c)
    => /\ ~StatementSent(c)
       /\ Done(c) => calls[c].resp.kind = "error" /\ Says(c, "Invalid identifier: ")

\* C18: a call with a table or column name outside the allow-list sends no
\* statement and fails; the error is 'Invalid identifier' unless a check
\* the handler makes before it looks at the name has failed: no connection,
\* no client from the pool, or no data or no WHERE clause in the call.
C18_BadNameSendsNothing ==
  \A c \in Slots :
    HasBadName(c)
    => /\ ~StatementSent(c)
       /\ Done(c) =>
            /\ calls[c].resp.kind = "error"
            /\ \/ Says(c, "Invalid identifier: ")
               \/ Says(c, "No database connection. Please connect first using connect_database.")
               \/ Says(c, "connection failed")
               \/ Says(c, "Data is required for insert operation")
               \/ Says(c, "Data is required for update operation")
               \/ Says(c, "WHERE clause is required for update operation")

\* C18 witness: an insert whose column name holds a semicolon got its
\* client from the pool and failed with 'Invalid identifier'.
C18_BadColumnRejected ==
  \E c \in Slots :
    /\ HasBadName(c) /\ Done(c)
    /\ Get(calls[c].args, "operation") = Str("insert")
    /\ AllowListed(Get(calls[c].args, "tableName").a)
    /\ Says(c, "CRUD operation failed: ") /\ Says(c, "Invalid identifier: ")

\* What load_request(name, collection) finds when it reads the file now.
Loads(files, name, collection) == loadRequestFinds(files[collection], name)
LoadFails(files, name, collection) ==
  loadRequestAfterRead(files[collection], name, collection).k = "throw"

SaveWrites(c, name, collection) ==
  /\ calls[c].tool = "save_request"
  /\ InFlight(c)
  /\ calls[c].op.kind = "writeFile"
  /\ calls[c].op.name = name
  /\ calls[c].op.collection = collection
  /\ calls'[c] # calls[c]

\* C20: round trip of saved requests.  When save_request(name, config,
\* collection) returns, load_request(name, collection) finds exactly the
\* config's fields plus savedAt; what load_request finds for a saved name
\* changes only by a save_request of the same name and collection writing
\* the file; and load_request fails for every name the file of the
\* collection does not hold.
C20_SavedRequestRoundTrip ==
  [][/\ \A c \in Slots :
          (calls[c].tool = "save_request" /\ InFlight(c) /\ Done(c)')
            => Loads(dataDir', calls[c].op.name, calls[c].op.collection)
                 = SavedEntry(Get(calls[c].args, "config"))
     /\ \A collection \in Collections :
          \A name \in {"obtener_usuario", "crear_usuario"} :
            (/\ Loads(dataDir, name, collection) # Undef
             /\ Loads(dataDir', name, collection) # Loads(dataDir, name, collection))
              => \E c \in Slots : SaveWrites(c, name, collection)
     /\ \A collection \in Collections :
          \A name \in {"obtener_usuario", "crear_usuario", "constructor"} :
            (\/ ~JSONparses(dataDir'[collection])
             \/ name \notin DOMAIN JSONparse(dataDir'[collection]))
              => LoadFails(dataDir', name, collection)]_vars

\* A crud_operations call that is invalid on its face.
InvalidOnFace(args) ==
  LET operation == Get(args, "operation")
  IN \/ operation \notin {Str("insert"), Str("update"), Str("delete")}
     \/ operation \in {Str("insert"), Str("update")} /\ NoData(Get(args, "data"))
     \/ operation \in {Str("update"), Str("delete")} /\ ~Truthy(Get(args, "where"))

\* C24: a crud_operations call that is invalid on its face (operation outside
\* insert / update / delete, insert or update without data, update or delete
\* without where) is rejected before anything is asked of the pool: the
\* handler reaches no await, so no client is acquired and no statement sent.
C24_InvalidCrudRejectedFirst ==
  \A c \in Slots :
    (/\ calls[c].tool = "crud_operations"
     /\ calls[c].pc # "idle"
     /\ calls[c].args.defined
     /\ InvalidOnFace(calls[c].args))
      => ~calls[c].ext /\ ~StatementSent(c)

\* C25: every client a handler takes from the pool is released before the
\* handler returns, on success and on every failure: when no call is in
\* flight no pool has a client checked out, and the clients checked out
\* never reach the pool's maximum.
C25_ClientsReleased ==
  \A i \in PoolIds :
    /\ pools[i].busy < PoolMax
    /\ (\A c \in Slots : ~InFlight(c)) => pools[i].busy = 0

\* The connect_database call c fails in this step.
ConnectFails(c) ==
  /\ calls'[c] # calls[c]
  /\ calls'[c].tool = "connect_database"
  /\ calls'[c].pc = "done"
  /\ calls'[c].threw

\* C26: when connect_database fails, this.pool references no pool that was
\* ended and no pool whose connection test this call has just failed, so a
\* later call that needs a connection stops at checkConnection.
C26_FailedConnectLeavesNoPool ==
  [][\A c \in Slots :
       ConnectFails(c) =>
         \/ ~PoolHeld(pool')
         \/ /\ pools'[pool'].state = "open"
            /\ ~(InFlight(c) /\ calls[c].op.kind \in {"connect", "wait", "query"}
                 /\ calls[c].op.pid = pool')]_vars

\* The save_request call c opens its collection's file for writing in this
\* step: what it writes is decided.
SaveStartsWriting(c) ==
  /\ calls[c].tool = "save_request" /\ InFlight(c)
  /\ calls[c].op.kind = "writeFile" /\ ~calls[c].op.opened
  /\ calls'[c].op.opened

\* C29: save_request changes only the entry `name` of its collection: the
\* object it writes holds, unchanged, every request the file holds under
\* another name when the write starts, and the files of the other
\* collections are not touched.
C29_SaveChangesOnlyItsEntry ==
  [][\A c \in Slots :
       SaveStartsWriting(c) =>
         /\ \A name \in {"obtener_usuario", "crear_usuario"} \ {calls[c].op.name} :
              Loads(dataDir, name, calls[c].op.collection) # Undef
                => Lookup(calls[c].loc.requests, name)
                     = Loads(dataDir, name, calls[c].op.collection)
         /\ \A other \in Collections \ {calls[c].op.collection} :
              dataDir'[other] = dataDir[other]]_vars

\* The browser_type of a close call: a browser type, or "all".
CloseTarget(c) ==
  IF calls[c].args.defined /\ Truthy(Get(calls[c].args, "browser_type"))
  THEN Get(calls[c].args, "browser_type").s ELSE "all"

IsClose(c) ==
  \/ calls[c].tool = "playwright_close_browser"
  \/ calls[c].tool = "playwright_browser" /\ calls[c].args.defined
       /\ Get(calls[c].args, "action") = Str("close")

\* C21: closing browsers honours browser_type.  A step of a close call with
\* a browser type leaves every browser of another type registered and
\* running; a close call for 'all' (or with no browser_type) ends with no
\* browser registered.
C21_CloseHonoursBrowserType ==
  [][\A c \in Slots :
       (IsClose(c) /\ InFlight(c) /\ calls'[c] # calls[c])
         => IF CloseTarget(c) \in BrowserTypes
            THEN \A t \in BrowserTypes \ {CloseTarget(c)} :
                   /\ pw'.browsers[t] = pw.browsers[t]
                   /\ pw.browsers[t] \in pw.live => pw.browsers[t] \in pw'.live
            ELSE Done(c)' => \A t \in BrowserTypes : pw'.browsers[t] = 0]_vars

\* C27: when no call is in flight, currentPage is null or a page of a
\* browser that is running and registered in this.browsers, and this.pages
\* holds no page of a closed browser.
C27_CurrentPageOfOpenBrowser ==
  (\A c \in Slots : ~InFlight(c))
    => /\ pw.currentPage # 0
            => /\ pw.owner[pw.currentPage] \in pw.live
               /\ \E t \in BrowserTypes : pw.browsers[t] = pw.owner[pw.currentPage]
       /\ \A page \in pw.pages : pw.owner[page] \in pw.live

\* C28: when opening a page fails, the call leaves nothing of its own in
\* the page state: the page it created is not in this.pages and is neither
\* the current page nor the current context.
C28_FailedOpenChangesNothing ==
  [][\A c \in Slots :
       (/\ InFlight(c) /\ calls[c].op.kind \in {"launch", "newContext", "goto"}
        /\ Done(c)' /\ calls'[c].threw)
         => \/ calls[c].op.page = 0
            \/ /\ calls[c].op.page \notin pw'.pages
               /\ pw'.currentPage # calls[c].op.page
               /\ pw'.currentContext # calls[c].op.page]_vars

\* C22: playwright_test in suite mode reports Status PASSED if and only if
\* the condition of every listed assertion holds on the page, and counts as
\* passed exactly the assertions whose condition holds.
C22_SuitePassedIffAllHold ==
  \A c \in Slots :
    (/\ calls[c].tool = "playwright_test" /\ Done(c)
     /\ calls[c].resp.kind = "result"
     /\ calls[c].args.defined /\ Truthy(Get(calls[c].args, "test_config"))
     /\ ~Truthy(Get(calls[c].args, "assertion_type")))
      => LET results == calls[c].loc.results
             hold == {i \in 1..Len(results) : results[i].result = "PASSED"}
         IN /\ calls[c].resp.text[2] = "PASSED" <=> hold = 1..Len(results)
            /\ calls[c].resp.text[4] = ToString(Cardinality(hold))


\* The names of a list-tools answer.
Listed(text) == {text[i] : i \in DOMAIN text}

\* Call c was answered by the default branch of the switch.
UnknownToolAnswer(c) ==
  /\ Done(c)
  /\ calls[c].resp = Settle(UnknownTool(daemon, calls[c].tool))

\* Call c is inside a method of the switch, or was answered by one.
RoutedToHandler(c) ==
  \/ InFlight(c) /\ calls[c].op.kind = "handler"
  \/ Done(c) /\ ~UnknownToolAnswer(c)

\* C30: for each daemon the names list-tools returns are the names the
\* call-tool switch routes to a handler: a list-tools answer holds exactly
\* the routed names, a call of a listed name is never answered by the
\* unknown-tool branch, and a call of any other name always is.
C30_ListedEqualsRouted ==
  \A c \in Slots :
    calls[c].pc # "idle" =>
      IF calls[c].tool = "tools/list"
      THEN Listed(calls[c].resp.text) = Routed(daemon)
      ELSE (calls[c].tool \in Listed(ToolNames(daemon))) <=> RoutedToHandler(c)

\* C30 witness: the optimised Playwright server holds a call of a listed tool
\* inside its method.
C30_ListedToolInHandler ==
  /\ daemon = "playwright-opt"
  /\ \E c \in Slots :
       /\ InFlight(c)
       /\ calls[c].tool = "playwright_browser"
       /\ calls[c].tool \in Listed(ToolNames(daemon))
       /\ calls[c].op.handler = "manageBrowser"

\* C23: the Playwright server exposes playwright_open, playwright_click,
\* playwright_fill, playwright_screenshot, playwright_text and
\* playwright_close_browser: a list-tools answer holds the six names, and a
\* call of one of them is routed to its method (openPage, clickElement,
\* fillInput, takeScreenshot, extractText, closeBrowser).
C23_SixToolsExposed ==
  daemon \in PwDaemons =>
    \A c \in Slots :
      /\ (Done(c) /\ calls[c].tool = "tools/list")
           => DOMAIN requiredTools \subseteq Listed(calls[c].resp.text)
      /\ (calls[c].pc # "idle" /\ calls[c].tool \in DOMAIN requiredTools)
           => /\ RoutedToHandler(c)
              /\ InFlight(c) => calls[c].op.handler = requiredTools[calls[c].tool]
              /\ (Done(c) /\ ~calls[c].threw)
                   => calls[c].resp.text = <<requiredTools[calls[c].tool]>>

====
